---- MODULE Spec2Model ----
(***************************************************************************)
(* s3audit-rs: policy statement analysis (src/s3/policy.rs and             *)
(* src/s3/policy/), the audit selection set (src/s3/audits.rs) and the     *)
(* per-bucket report orchestration (src/s3/client.rs).                     *)
(*                                                                         *)
(* Rust strings are modelled as sequences of one-character strings, so     *)
(* that contains(), starts_with() and == are computed on the characters.   *)
(***************************************************************************)
EXTENDS Integers, Sequences, FiniteSets, Bags, TLC

VARIABLES
    \* ---- BucketPolicy::try_from (src/s3/policy.rs) ----
    output,      \* GetBucketPolicyOutput.policy handed to try_from
    ppc,         \* position inside try_from
    idx,         \* index of the next statement of statements_array
    actions,     \* the Action accumulator (Vec<String>)
    principals,  \* the Principal accumulator (Vec<String>)
    \* ---- Audits (src/s3/audits.rs) ----
    auditSet,    \* Audits.0, the HashSet<Audit>
    receiver,    \* the set the last call was made on (its self)
    apc,         \* "ready" between calls, "returned" when a call has run
    op,          \* the method that ran last
    arg,         \* its audits argument, an Option<Vec<Audit>>
    enabledVec,  \* the Vec<Audit> returned by enabled(), up to its order
    \* ---- Client::report and Client::bucket_report (src/s3/client.rs) ----
    auditVec,    \* the audits argument, a Vec<Audit> kept as a bag
    bucketArg,   \* the bucket argument, an Option<String>
    account,     \* what list_buckets answers for the account
    buckets,     \* the Vec<Bucket> of report
    rpc,         \* position inside report and bucket_report
    bidx,        \* index in buckets of the bucket under audit
    locals,      \* acl, encryption, ... website of the running bucket_report
    calls,       \* history: the SDK calls made so far, with their answers
    reports,     \* the Vec<Report> of report
    \* ---- the classifiers (src/s3/acl.rs ... src/s3/website.rs) ----
    classifier,  \* which From impl is applied
    raw,         \* the raw SDK output (or Result) handed to it
    cpc,         \* "ready" before the conversion, "done" after it
    finding,     \* its outcome: the finding, or a panic
    \* ---- main (src/main.rs) ----
    cli,         \* CliConfig: disable_check and enable_check
    mpc,         \* position inside main
    mainAudits   \* let audits, the Vec<Audit> handed to report, as a bag

vars == <<output, ppc, idx, actions, principals,
          auditSet, receiver, apc, op, arg, enabledVec,
          auditVec, bucketArg, account, buckets, rpc, bidx, locals, calls,
          reports,
          classifier, raw, cpc, finding,
          cli, mpc, mainAudits>>

-----------------------------------------------------------------------------
(* String constants of the program and of its tests.                       *)

\* src/s3/policy/actions.rs:4 and src/s3/policy/principals.rs:6: "*"
WILDCARD ==
    <<"*">>

\* src/s3/policy/principals.rs:5
\* "arn:aws:iam::cloudfront:user/CloudFront Origin Access Identity "
CLOUDFRONT_OAI ==
    <<"a","r","n",":","a","w","s",":","i","a","m",":",":","c","l","o","u",
      "d","f","r","o","n","t",":","u","s","e","r","/","C","l","o","u","d",
      "F","r","o","n","t"," ","O","r","i","g","i","n"," ","A","c","c","e",
      "s","s"," ","I","d","e","n","t","i","t","y"," ">>

\* "Deny"
StrDeny ==
    <<"D","e","n","y">>

\* "Allow"
StrAllow ==
    <<"A","l","l","o","w">>

\* "deny"
StrDenyLower ==
    <<"d","e","n","y">>

\* "DENY"
StrDenyUpper ==
    <<"D","E","N","Y">>

\* "Audit", an Effect that IAM does not know
StrAudit ==
    <<"A","u","d","i","t">>

UpperCase ==
    <<"A","B","C","D","E","F","G","H","I","J","K","L","M",
      "N","O","P","Q","R","S","T","U","V","W","X","Y","Z">>

LowerCase ==
    <<"a","b","c","d","e","f","g","h","i","j","k","l","m",
      "n","o","p","q","r","s","t","u","v","w","x","y","z">>

\* str::to_lowercase, on the ASCII letters
ToLowercase(str) ==
    [i \in DOMAIN str |->
        IF \E k \in DOMAIN UpperCase : UpperCase[k] = str[i]
        THEN LowerCase[CHOOSE k \in DOMAIN UpperCase : UpperCase[k] = str[i]]
        ELSE str[i]]

\* src/s3/bucket_policy.rs, the older classifier:
\* if effect.to_lowercase() == "deny" { return Self::NoWildcards; }
OlderEffectIsDeny(effect) == ToLowercase(effect) = StrDenyLower

\* "s3:*"
StrS3Star ==
    <<"s","3",":","*">>

\* "s3:*Object*"
StrS3StarObject ==
    <<"s","3",":","*","O","b","j","e","c","t","*">>

\* "iam:*AccessKey*"
StrIamAccessKey ==
    <<"i","a","m",":","*","A","c","c","e","s","s","K","e","y","*">>

\* "s3:GetObject"
StrGetObject ==
    <<"s","3",":","G","e","t","O","b","j","e","c","t">>

\* "s3:ListAllMyBuckets"
StrListAllMyBuckets ==
    <<"s","3",":","L","i","s","t","A","l","l","M","y","B","u","c","k","e",
      "t","s">>

\* "arn:aws:iam::*:user/*"
StrArnStar ==
    <<"a","r","n",":","a","w","s",":","i","a","m",":",":","*",":","u","s",
      "e","r","/","*">>

\* "arn:aws:iam::123456789012:root"
StrArnRoot ==
    <<"a","r","n",":","a","w","s",":","i","a","m",":",":","1","2","3","4",
      "5","6","7","8","9","0","1","2",":","r","o","o","t">>

\* "arn:aws:iam::cloudfront:user/CloudFront Origin Access Identity E1234"
StrOaiE1234 ==
    <<"a","r","n",":","a","w","s",":","i","a","m",":",":","c","l","o","u",
      "d","f","r","o","n","t",":","u","s","e","r","/","C","l","o","u","d",
      "F","r","o","n","t"," ","O","r","i","g","i","n"," ","A","c","c","e",
      "s","s"," ","I","d","e","n","t","i","t","y"," ","E","1","2","3","4">>

\* "arn:aws:iam::cloudfront:user/CloudFront Origin Access Identity"
StrOaiNoSpace ==
    <<"a","r","n",":","a","w","s",":","i","a","m",":",":","c","l","o","u",
      "d","f","r","o","n","t",":","u","s","e","r","/","C","l","o","u","d",
      "F","r","o","n","t"," ","O","r","i","g","i","n"," ","A","c","c","e",
      "s","s"," ","I","d","e","n","t","i","t","y">>

\* "s3.amazonaws.com"
StrService ==
    <<"s","3",".","a","m","a","z","o","n","a","w","s",".","c","o","m">>

-----------------------------------------------------------------------------
(* serde_json::Value: a tagged value.  An object's val is a function from   *)
(* its keys to values; an array's val is a sequence of values.              *)

\* Option<T>
None == [kind |-> "None"]
Some(x) == [kind |-> "Some", val |-> x]

\* Result<T, E>
Ok(x) == [kind |-> "Ok", val |-> x]
Err(e) == [kind |-> "Err", val |-> e]

JNull == [kind |-> "Null", val |-> <<>>]
JBool(b) == [kind |-> "Bool", val |-> b]
JNumber(n) == [kind |-> "Number", val |-> n]
JString(s) == [kind |-> "String", val |-> s]
JArray(a) == [kind |-> "Array", val |-> a]
JObject(o) == [kind |-> "Object", val |-> o]

\* value[key]: serde_json's Index yields Null for a missing key and for a
\* value that is not an object.
JIndex(value, key) ==
    IF value.kind = "Object" /\ key \in DOMAIN value.val
    THEN value.val[key]
    ELSE JNull

\* Value::as_str / Value::as_array: Some only for that shape.
IsStr(value) == value.kind = "String"
IsArray(value) == value.kind = "Array"

-----------------------------------------------------------------------------
(* str::contains and str::starts_with on character sequences.              *)

StartsWith(s, prefix) ==
    /\ Len(s) >= Len(prefix)
    /\ SubSeq(s, 1, Len(prefix)) = prefix

Contains(s, pat) ==
    \E i \in 1..(Len(s) - Len(pat) + 1) :
        SubSeq(s, i, i + Len(pat) - 1) = pat

\* iter().filter(pred).count()
CountWhere(vec, Pred(_)) ==
    Cardinality({i \in DOMAIN vec : Pred(vec[i])})

-----------------------------------------------------------------------------
(* src/s3/policy/actions.rs                                                *)

ActionMatchesExact(name) == name = WILDCARD

\* Action::wildcards: names that contain "*" anywhere
ActionMatches(name) == Contains(name, WILDCARD)

ActionWildcards(self) == CountWhere(self, ActionMatches)

\* From<&Value> for Action.  An array element that is not a string makes
\* as_str().unwrap() panic.
ActionFrom(value) ==
    CASE value.kind = "String" ->
           [panic |-> FALSE, names |-> <<value.val>>]
      [] value.kind = "Array" ->
           IF \A i \in DOMAIN value.val : IsStr(value.val[i])
           THEN [panic |-> FALSE,
                 names |-> [i \in DOMAIN value.val |-> value.val[i].val]]
           ELSE [panic |-> TRUE, names |-> <<>>]
      [] OTHER -> [panic |-> FALSE, names |-> <<>>]

-----------------------------------------------------------------------------
(* src/s3/policy/principals.rs                                             *)

PrincipalMatchesSubstring(arn) == Contains(arn, WILDCARD)

\* Principal::wildcards: arns equal to "*"
PrincipalMatches(arn) == arn = WILDCARD

PrincipalWildcards(self) == CountWhere(self, PrincipalMatches)

IsCloudfrontOaiNoSpace(arn) == StartsWith(arn, StrOaiNoSpace)

\* Principal::cloudfront_distributions: arns that start with CLOUDFRONT_OAI
IsCloudfrontOai(arn) == StartsWith(arn, CLOUDFRONT_OAI)

PrincipalCloudfrontDistributions(self) == CountWhere(self, IsCloudfrontOai)

\* A variant that reads whichever key the object holds, not AWS alone.
PrincipalFromAnyKey(value) ==
    CASE value.kind = "String" ->
           [panic |-> FALSE, names |-> <<value.val>>]
      [] value.kind = "Object" ->
           LET key == CHOOSE k \in DOMAIN value.val : TRUE
               principal == value.val[key] IN
           CASE principal.kind = "String" ->
                  [panic |-> FALSE, names |-> <<principal.val>>]
             [] principal.kind = "Array" ->
                  IF \A i \in DOMAIN principal.val : IsStr(principal.val[i])
                  THEN [panic |-> FALSE,
                        names |-> [i \in DOMAIN principal.val |->
                                      principal.val[i].val]]
                  ELSE [panic |-> TRUE, names |-> <<>>]
             [] OTHER -> [panic |-> FALSE, names |-> <<>>]
      [] OTHER -> [panic |-> FALSE, names |-> <<>>]

\* From<&Value> for Principal
PrincipalFrom(value) ==
    CASE value.kind = "String" ->
           [panic |-> FALSE, names |-> <<value.val>>]
      [] value.kind = "Object" ->
           IF "AWS" \in DOMAIN value.val
           THEN LET principal == value.val["AWS"] IN
                CASE principal.kind = "String" ->
                       [panic |-> FALSE, names |-> <<principal.val>>]
                  [] principal.kind = "Array" ->
                       IF \A i \in DOMAIN principal.val :
                              IsStr(principal.val[i])
                       THEN [panic |-> FALSE,
                             names |-> [i \in DOMAIN principal.val |->
                                           principal.val[i].val]]
                       ELSE [panic |-> TRUE, names |-> <<>>]
                  [] OTHER -> [panic |-> FALSE, names |-> <<>>]
           ELSE [panic |-> FALSE, names |-> <<>>]
      [] OTHER -> [panic |-> FALSE, names |-> <<>>]

-----------------------------------------------------------------------------
(* src/s3/policy.rs: BucketPolicy                                          *)

WildcardsActionsOnly(acts, princs) == ActionWildcards(acts)

\* BucketPolicy::wildcards: Wildcards(0) + actions.wildcards()
\*                                       + principals.wildcards()
Wildcards(acts, princs) ==
    0 + ActionWildcards(acts) + PrincipalWildcards(princs)

\* BucketPolicy::cloudfront_distributions
CloudFrontDistributions(princs) == PrincipalCloudfrontDistributions(princs)

\* A variant that compares the way the older classifier does.
IsDenyIgnoreCase(effect) == OlderEffectIsDeny(effect)

IsDenyNever(effect) == FALSE

\* if effect == "Deny" { continue }
IsDeny(effect) == effect = StrDeny

\* A variant that passes over a statement without a string Effect.
StatementSkipNoEffect(acc, statement) ==
    LET effect == JIndex(statement, "Effect") IN
    IF ~IsStr(effect) \/ IsDeny(effect.val)
    THEN [st |-> "next", actions |-> acc.actions,
          principals |-> acc.principals]
    ELSE LET action == ActionFrom(JIndex(statement, "Action"))
             principal == PrincipalFrom(JIndex(statement, "Principal"))
         IN  IF action.panic \/ principal.panic
             THEN [st |-> "panic", actions |-> acc.actions,
                   principals |-> acc.principals]
             ELSE [st |-> "next",
                   actions |-> acc.actions \o action.names,
                   principals |-> acc.principals \o principal.names]

\* One iteration of `for statement in statements_array.iter()`, from the
\* accumulators acc = [actions, principals]: st is "panic" when an expect()
\* or unwrap() fails, else "next" with the accumulators after the iteration.
Statement(acc, statement) ==
    LET effect == JIndex(statement, "Effect") IN
    IF ~IsStr(effect)
    THEN [st |-> "panic", actions |-> acc.actions,
          principals |-> acc.principals]
    ELSE IF IsDeny(effect.val)
    THEN [st |-> "next", actions |-> acc.actions,
          principals |-> acc.principals]
    ELSE LET action == ActionFrom(JIndex(statement, "Action"))
             principal == PrincipalFrom(JIndex(statement, "Principal"))
         IN  IF action.panic \/ principal.panic
             THEN [st |-> "panic", actions |-> acc.actions,
                   principals |-> acc.principals]
             ELSE [st |-> "next",
                   actions |-> acc.actions \o action.names,
                   principals |-> acc.principals \o principal.names]

\* The loop of try_from run over a whole statement array from empty
\* accumulators (let mut actions/principals = Default::default()).
RECURSIVE Statements(_, _)
Statements(acc, array) ==
    IF array = <<>> \/ acc.st = "panic"
    THEN acc
    ELSE Statements(Statement(acc, Head(array)), Tail(array))

EmptyAcc == [st |-> "next", actions |-> <<>>, principals |-> <<>>]

-----------------------------------------------------------------------------
(* Policy documents handed to try_from.                                    *)

MaxStatements == 2

ActionValues ==
    { JString(WILDCARD),
      JString(StrGetObject),
      JArray(<<JString(StrS3Star), JString(StrIamAccessKey),
               JString(StrGetObject)>>),
      JArray(<<JString(StrListAllMyBuckets), JString(StrGetObject),
               JString(StrS3Star), JString(WILDCARD)>>),
      JArray(<<JString(StrS3Star), JString(StrS3StarObject),
               JString(WILDCARD)>>),
      JArray(<<JString(StrS3Star), JNumber(1)>>),
      JNumber(1),
      JBool(TRUE),
      JObject([s3 |-> JString(WILDCARD)]),
      JNull }

PrincipalValues ==
    { JString(WILDCARD),
      JString(StrArnStar),
      JObject([AWS |-> JString(WILDCARD)]),
      JObject([AWS |-> JArray(<<JString(StrArnStar), JString(WILDCARD)>>)]),
      JObject([AWS |-> JString(StrOaiE1234)]),
      JObject([AWS |-> JArray(<<JString(StrOaiE1234), JString(WILDCARD),
                                JString(StrOaiNoSpace)>>)]),
      JObject([AWS |-> JArray(<<JString(WILDCARD), JNumber(1)>>)]),
      JObject([AWS |-> JBool(TRUE)]),
      JObject([Service |-> JString(StrService)]),
      JObject([Federated |-> JString(WILDCARD)]),
      JObject([Service |-> JString(WILDCARD),
               CanonicalUser |-> JArray(<<JString(StrOaiE1234)>>)]),
      JNumber(1),
      JBool(TRUE),
      JNull }

\* Action and Principal vary one at a time around a plain pair, plus the
\* pairs of the tests.
ActionPrincipalPairs ==
    {<<a, JObject([AWS |-> JString(StrArnRoot)])>> : a \in ActionValues}
      \cup {<<JString(StrGetObject), p>> : p \in PrincipalValues}
      \cup {<<JString(WILDCARD), JString(WILDCARD)>>,
            <<JArray(<<JString(StrS3Star), JString(StrS3StarObject),
                       JString(WILDCARD)>>),
              JObject([AWS |-> JArray(<<JString(StrArnStar),
                                        JString(WILDCARD)>>)])>>}

MkStatement(effect, action, principal) ==
    JObject([Effect |-> effect, Action |-> action, Principal |-> principal])

StatementValues ==
    {MkStatement(JString(e), ap[1], ap[2]) :
        e \in {StrAllow, StrDeny}, ap \in ActionPrincipalPairs}
      \cup {MkStatement(JString(StrDenyLower), JString(WILDCARD),
                        JObject([AWS |-> JString(StrOaiE1234)])),
            JObject([Action |-> JString(WILDCARD),
                     Principal |-> JString(WILDCARD)]),
            JObject([Effect |-> JString(StrAllow),
                     Action |-> JString(WILDCARD)]),
            JObject([Effect |-> JString(StrAllow),
                     Principal |-> JObject([AWS |-> JString(WILDCARD)])]),
            MkStatement(JString(StrDenyUpper), JString(WILDCARD),
                        JString(WILDCARD)),
            MkStatement(JString(StrAudit), JString(StrS3Star),
                        JObject([AWS |-> JString(StrOaiE1234)])),
            MkStatement(JNull, JString(WILDCARD), JString(WILDCARD))}

StatementArrays ==
    UNION {[1..n -> StatementValues] : n \in 0..MaxStatements}

\* The JSON documents: with a Statement array, with a Statement that is not
\* an array, and without one.
Documents ==
    {JObject([Version |-> JNumber(2012), Statement |-> JArray(a)]) :
        a \in StatementArrays}
      \cup {JObject([Version |-> JNumber(2012),
                     Statement |-> JString(WILDCARD)]),
            JObject([Version |-> JNumber(2012)])}

\* GetBucketPolicyOutput.policy: None, or Some(text).  A text is either not
\* JSON or the serialisation of a document.
PolicyOutputs ==
    {None, Some([json |-> FALSE])}
      \cup {Some([json |-> TRUE, value |-> d]) : d \in Documents}

\* serde_json::from_str(&policy)
FromStr(policy) ==
    IF policy.json THEN Ok(policy.value) ELSE Err("serde_json::Error")

\* try_from up to its loop: "err" when the policy string is absent or is not
\* JSON, "panic" when the document holds no Statement array, else "loop".
TryFromHead(out) ==
    IF out.kind = "None" THEN "err"
    ELSE IF FromStr(out.val).kind = "Err" THEN "err"
    ELSE IF ~IsArray(JIndex(FromStr(out.val).val, "Statement")) THEN "panic"
    ELSE "loop"

\* try_from as a whole: Err, a panic, or Ok(BucketPolicy).
TryFrom(out) ==
    IF TryFromHead(out) # "loop"
    THEN [st |-> TryFromHead(out)]
    ELSE LET r == Statements(EmptyAcc,
                             JIndex(FromStr(out.val).val, "Statement").val)
         IN  IF r.st = "panic"
             THEN [st |-> "panic"]
             ELSE [st |-> "ok", actions |-> r.actions,
                   principals |-> r.principals]

-----------------------------------------------------------------------------
(* The classifiers: raw SDK outputs to findings.  URIs, bucket names and   *)
(* regions are only compared for equality and are plain strings.           *)

\* Option::unwrap_or
UnwrapOr(opt, default) ==
    IF opt.kind = "None" THEN default ELSE opt.val

\* src/s3/acl.rs: PUBLIC_URIS
PUBLIC_URIS ==
    { "http://acs.amazonaws.com/groups/global/AllUsers",
      "http://acs.amazonaws.com/groups/global/AuthenticatedUsers" }

\* One turn of the loop over grants: TRUE when it returns Self::Public.
IsPublicGrant(grant) ==
    /\ grant.grantee.kind = "Some"
    /\ grant.grantee.val.uri.kind = "Some"
    /\ grant.grantee.val.uri.val \in PUBLIC_URIS

\* A variant that decides from the first grant alone.
BucketAclFromFirstGrant(out) ==
    IF out.grants.kind = "None" THEN "Private"
    ELSE IF out.grants.val = <<>> THEN "Private"
    ELSE IF IsPublicGrant(out.grants.val[1]) THEN "Public"
    ELSE "Private"

\* impl From<GetBucketAclOutput> for BucketAcl
BucketAclFrom(out) ==
    IF out.grants.kind = "None" THEN "Private"
    ELSE IF out.grants.val = <<>> THEN "Private"
    ELSE IF \E i \in DOMAIN out.grants.val : IsPublicGrant(out.grants.val[i])
         THEN "Public"
    ELSE "Private"

\* ServerSideEncryption::as_str
SseAsStr(alg) ==
    CASE alg.kind = "Aes256" -> "AES256"
      [] alg.kind = "AwsKms" -> "aws:kms"
      [] OTHER -> alg.val

\* A variant that decides from the last rule instead of the first.
BucketEncryptionFromLastRule(out) ==
    LET config == out.server_side_encryption_configuration
        rules == IF config.kind = "None" THEN None ELSE config.val.rules
        last == IF rules.kind = "None" THEN None
                ELSE IF rules.val = <<>> THEN None
                ELSE Some(rules.val[Len(rules.val)])
        by_default ==
            IF last.kind = "None" THEN None
            ELSE last.val.apply_server_side_encryption_by_default
        sse_algorithm ==
            IF by_default.kind = "None" THEN None
            ELSE by_default.val.sse_algorithm
    IN  IF sse_algorithm.kind = "None" THEN [kind |-> "None", val |-> ""]
        ELSE IF sse_algorithm.val.kind = "Aes256"
             THEN [kind |-> "Default", val |-> ""]
        ELSE IF sse_algorithm.val.kind = "AwsKms"
             THEN [kind |-> "Kms", val |-> ""]
        ELSE [kind |-> "Unknown", val |-> SseAsStr(sse_algorithm.val)]

\* impl From<GetBucketEncryptionOutput> for BucketEncryption: the chain of
\* and_then calls, then the match on sse_algorithm.
BucketEncryptionFromOutput(out) ==
    LET config == out.server_side_encryption_configuration
        rules == IF config.kind = "None" THEN None ELSE config.val.rules
        first == IF rules.kind = "None" THEN None
                 ELSE IF rules.val = <<>> THEN None
                 ELSE Some(Head(rules.val))
        by_default ==
            IF first.kind = "None" THEN None
            ELSE first.val.apply_server_side_encryption_by_default
        sse_algorithm ==
            IF by_default.kind = "None" THEN None
            ELSE by_default.val.sse_algorithm
    IN  IF sse_algorithm.kind = "None" THEN [kind |-> "None", val |-> ""]
        ELSE IF sse_algorithm.val.kind = "Aes256"
             THEN [kind |-> "Default", val |-> ""]
        ELSE IF sse_algorithm.val.kind = "AwsKms"
             THEN [kind |-> "Kms", val |-> ""]
        ELSE [kind |-> "Unknown", val |-> SseAsStr(sse_algorithm.val)]

\* impl From<EncryptionResult> for BucketEncryption
BucketEncryptionFrom(res) ==
    IF res.kind = "Ok"
    THEN BucketEncryptionFromOutput(res.val)
    ELSE [kind |-> "None", val |-> ""]

\* impl From<GetBucketLoggingOutput> for BucketLogging
BucketLoggingFrom(out) ==
    IF out.logging_enabled.kind = "None"
    THEN [kind |-> "Disabled", val |-> ""]
    ELSE [kind |-> "Enabled", val |-> out.logging_enabled.val.target_bucket]

\* impl Default for PublicAccessBlock
PublicAccessBlockDefault ==
    << [kind |-> "BlockPublicAcls", val |-> FALSE],
       [kind |-> "BlockPublicPolicy", val |-> FALSE],
       [kind |-> "IgnorePublicAcls", val |-> FALSE],
       [kind |-> "RestrictPublicBuckets", val |-> FALSE] >>

\* A variant that lists IgnorePublicAcls before BlockPublicPolicy.
PublicAccessBlockFromReordered(out) ==
    IF out.public_access_block_configuration.kind = "None"
    THEN [st |-> "panic"]
    ELSE LET config == out.public_access_block_configuration.val
         IN  [st |-> "ok",
              val |->
                << [kind |-> "BlockPublicAcls",
                    val |-> UnwrapOr(config.block_public_acls, FALSE)],
                   [kind |-> "IgnorePublicAcls",
                    val |-> UnwrapOr(config.ignore_public_acls, FALSE)],
                   [kind |-> "BlockPublicPolicy",
                    val |-> UnwrapOr(config.block_public_policy, FALSE)],
                   [kind |-> "RestrictPublicBuckets",
                    val |-> UnwrapOr(config.restrict_public_buckets,
                                     FALSE)] >>]

\* impl From<GetPublicAccessBlockOutput> for PublicAccessBlock; the expect()
\* on an absent configuration panics.
PublicAccessBlockFrom(out) ==
    IF out.public_access_block_configuration.kind = "None"
    THEN [st |-> "panic"]
    ELSE LET config == out.public_access_block_configuration.val
         IN  [st |-> "ok",
              val |->
                << [kind |-> "BlockPublicAcls",
                    val |-> UnwrapOr(config.block_public_acls, FALSE)],
                   [kind |-> "BlockPublicPolicy",
                    val |-> UnwrapOr(config.block_public_policy, FALSE)],
                   [kind |-> "IgnorePublicAcls",
                    val |-> UnwrapOr(config.ignore_public_acls, FALSE)],
                   [kind |-> "RestrictPublicBuckets",
                    val |-> UnwrapOr(config.restrict_public_buckets,
                                     FALSE)] >>]

\* impl From<MfaDeleteStatus> for MfaStatus; "todo" is the todo!() arm.
MfaStatusFrom(status) ==
    CASE status = "Disabled" -> "Disabled"
      [] status = "Enabled" -> "Enabled"
      [] OTHER -> "todo"

\* impl From<BucketVersioningStatus> for VersioningStatus
VersioningStatusFrom(status) ==
    CASE status = "Enabled" -> "Enabled"
      [] status = "Suspended" -> "Suspended"
      [] OTHER -> "todo"

\* A variant that never reads the answer's mfa_delete.
BucketVersioningFromStatusOnly(out) ==
    IF out.status.kind = "Some" /\ VersioningStatusFrom(out.status.val) = "todo"
    THEN [st |-> "panic"]
    ELSE [st |-> "ok",
          val |-> [mfa_delete |-> "Disabled",
                   versioning |-> IF out.status.kind = "None"
                                  THEN "Suspended"
                                  ELSE VersioningStatusFrom(out.status.val)]]

\* impl From<GetBucketVersioningOutput> for BucketVersioning
BucketVersioningFrom(out) ==
    LET mfa_delete ==
            IF out.mfa_delete.kind = "None" THEN "Disabled"
            ELSE MfaStatusFrom(out.mfa_delete.val)
        versioning ==
            IF out.status.kind = "None" THEN "Suspended"
            ELSE VersioningStatusFrom(out.status.val)
    IN  IF mfa_delete = "todo" \/ versioning = "todo"
        THEN [st |-> "panic"]
        ELSE [st |-> "ok",
              val |-> [mfa_delete |-> mfa_delete, versioning |-> versioning]]

\* impl From<WebsiteResult> for BucketWebsite
BucketWebsiteFrom(res) ==
    IF res.kind = "Ok" THEN "Enabled" ELSE "Disabled"

-----------------------------------------------------------------------------
(* src/s3/client.rs: the fetch functions, each applied to the answer of    *)
(* its SDK call.  An outcome is [st |-> "ok", val |-> v] for Ok(v),        *)
(* [st |-> "err"] for an Err carried out by ?, [st |-> "panic"] for a     *)
(* panic.                                                                  *)

Returned_Ok(v) == [st |-> "ok", val |-> v]
Returned_Err == [st |-> "err"]

\* Client::get_bucket_location
GetBucketLocation(resp) ==
    IF resp.kind = "Err" THEN Returned_Err
    ELSE LET location_constraint == resp.val.location_constraint
         IN  Returned_Ok(
               IF location_constraint.kind = "None" THEN "us-east-1"
               ELSE IF location_constraint.val.kind = "Eu" THEN "eu-west-1"
               ELSE IF location_constraint.val.kind = "Unknown"
                    THEN IF location_constraint.val.val = ""
                         THEN "us-east-1"
                         ELSE location_constraint.val.val
               ELSE location_constraint.val.val)

\* Client::get_bucket_region
GetBucketRegion(resp) == GetBucketLocation(resp)

\* Client::get_bucket_acl
GetBucketAcl(resp) ==
    IF resp.kind = "Err" THEN Returned_Err
    ELSE Returned_Ok(BucketAclFrom(resp.val))

\* Client::get_bucket_encryption
GetBucketEncryption(resp) == Returned_Ok(BucketEncryptionFrom(resp))

\* Client::get_bucket_logging
GetBucketLogging(resp) ==
    IF resp.kind = "Err" THEN Returned_Err
    ELSE Returned_Ok(BucketLoggingFrom(resp.val))

\* A variant that reports a document without wildcards as no policy at all.
GetBucketPolicyWildcardsOrNone(resp) ==
    IF resp.kind = "Err" /\ resp.val # "ServiceError" THEN Returned_Err
    ELSE LET out == IF resp.kind = "Err" THEN [policy |-> None] ELSE resp.val
         IN  IF out.policy.kind = "None" THEN Returned_Ok(None)
             ELSE LET bucket_policy == TryFrom(out.policy)
                  IN  IF bucket_policy.st # "ok" THEN [st |-> bucket_policy.st]
                      ELSE IF Wildcards(bucket_policy.actions,
                                        bucket_policy.principals) = 0
                      THEN Returned_Ok(None)
                      ELSE Returned_Ok(Some(
                             [actions |-> bucket_policy.actions,
                              principals |-> bucket_policy.principals]))

\* Client::get_bucket_policy: a ServiceError counts as "no policy", any
\* other error is returned; an absent policy is Ok(None); a present one goes
\* through try_into.
GetBucketPolicy(resp) ==
    IF resp.kind = "Err" /\ resp.val # "ServiceError" THEN Returned_Err
    ELSE LET out == IF resp.kind = "Err" THEN [policy |-> None] ELSE resp.val
         IN  IF out.policy.kind = "None" THEN Returned_Ok(None)
             ELSE LET bucket_policy == TryFrom(out.policy)
                  IN  IF bucket_policy.st = "ok"
                      THEN Returned_Ok(Some(
                             [actions |-> bucket_policy.actions,
                              principals |-> bucket_policy.principals]))
                      ELSE [st |-> bucket_policy.st]

\* Client::get_bucket_versioning
GetBucketVersioning(resp) ==
    IF resp.kind = "Err" THEN Returned_Err
    ELSE BucketVersioningFrom(resp.val)

\* Client::get_bucket_website
GetBucketWebsite(resp) == Returned_Ok(BucketWebsiteFrom(resp))

\* A variant that carries the Err of the call out, as `?` would.
GetPublicAccessBlockPropagating(resp) ==
    IF resp.kind = "Err" THEN Returned_Err
    ELSE PublicAccessBlockFrom(resp.val)

\* Client::get_public_access_block
GetPublicAccessBlock(resp) ==
    IF resp.kind = "Err" THEN Returned_Ok(PublicAccessBlockDefault)
    ELSE PublicAccessBlockFrom(resp.val)

\* A variant that takes an empty list of audits for "every audit".
AuditsContainOrEmpty(vec, audit) == BagIn(audit, vec) \/ vec = EmptyBag

\* audits.contains(&audit) on the slice handed to bucket_report
AuditsContain(vec, audit) == BagIn(audit, vec)

\* A variant that fetches the versioning only for the Versioning audit.
AuditVersioningOnly(vec) == BagIn("Versioning", vec)

\* let audit_versioning = versioning_audits.iter().any(|x| audits.contains(x))
AuditVersioning(vec) ==
    \E x \in {"MfaDelete", "Versioning"} : AuditsContain(vec, x)

-----------------------------------------------------------------------------
(* The account the client talks to: four buckets and what S3 answers for   *)
(* each of them.  An answer is Ok(output) or Err(kind of SdkError).        *)

BucketNames == {"site", "vault", "plain", "odd"}

\* A public website bucket: a public ACL grant, no encryption and no public
\* access block configured, a policy with wildcards and a CloudFront OAI.
SiteBucket ==
    [ location |-> Ok([location_constraint |-> None]),
      acl |-> Ok([grants |-> Some(<<
                 [grantee |-> Some([uri |-> None])],
                 [grantee |-> Some([uri |-> Some(
                    "http://acs.amazonaws.com/groups/global/AllUsers")])]
               >>)]),
      encryption |-> Err("ServiceError"),
      logging |-> Ok([logging_enabled |-> None]),
      policy |-> Ok([policy |-> Some([json |-> TRUE, value |->
                 JObject([Version |-> JNumber(2012), Statement |-> JArray(<<
                   MkStatement(JString(StrAllow), JString(WILDCARD),
                               JString(WILDCARD)),
                   MkStatement(JString(StrAllow), JString(StrGetObject),
                               JObject([AWS |-> JString(StrOaiE1234)]))
                 >>)])])]),
      public_access_block |-> Err("ServiceError"),
      versioning |-> Ok([mfa_delete |-> None, status |-> None]),
      website |-> Ok([index_document |-> "index.html"]) ]

\* A locked-down bucket: KMS, logging, versioning with MFA delete, no
\* policy (the service answers NoSuchBucketPolicy), no website.
VaultBucket ==
    [ location |-> Ok([location_constraint |-> Some([kind |-> "Eu",
                                                     val |-> "EU"])]),
      acl |-> Ok([grants |-> Some(<<
                 [grantee |-> None],
                 [grantee |-> Some([uri |-> Some(
                    "http://acs.amazonaws.com/groups/s3/LogDelivery")])]
               >>)]),
      encryption |-> Ok([server_side_encryption_configuration |-> Some(
                 [rules |-> Some(<<
                    [apply_server_side_encryption_by_default |-> Some(
                       [sse_algorithm |-> Some([kind |-> "AwsKms",
                                                val |-> "aws:kms"])])]
                 >>)])]),
      logging |-> Ok([logging_enabled |->
                        Some([target_bucket |-> "logs"])]),
      policy |-> Err("ServiceError"),
      public_access_block |-> Ok([public_access_block_configuration |-> Some(
                 [block_public_acls |-> Some(TRUE),
                  block_public_policy |-> Some(TRUE),
                  ignore_public_acls |-> None,
                  restrict_public_buckets |-> Some(FALSE)])]),
      versioning |-> Ok([mfa_delete |-> Some("Enabled"),
                         status |-> Some("Enabled")]),
      website |-> Err("ServiceError") ]

\* An ordinary bucket: no grants, AES256, an answer without a policy.
PlainBucket ==
    [ location |-> Ok([location_constraint |-> Some([kind |-> "Known",
                                                     val |-> "eu-west-2"])]),
      acl |-> Ok([grants |-> Some(<<>>)]),
      encryption |-> Ok([server_side_encryption_configuration |-> Some(
                 [rules |-> Some(<<
                    [apply_server_side_encryption_by_default |-> Some(
                       [sse_algorithm |-> Some([kind |-> "Aes256",
                                                val |-> "AES256"])])]
                 >>)])]),
      logging |-> Ok([logging_enabled |-> None]),
      policy |-> Ok([policy |-> None]),
      public_access_block |-> Ok([public_access_block_configuration |-> Some(
                 [block_public_acls |-> Some(TRUE),
                  block_public_policy |-> Some(TRUE),
                  ignore_public_acls |-> Some(TRUE),
                  restrict_public_buckets |-> Some(TRUE)])]),
      versioning |-> Ok([mfa_delete |-> Some("Disabled"),
                         status |-> Some("Suspended")]),
      website |-> Err("ServiceError") ]

\* A bucket whose answers are legal for the SDK's types and unusual: an
\* algorithm and a versioning status the SDK does not know, a policy text
\* that is not JSON, a public access block answer without a configuration.
OddBucket ==
    [ location |-> Ok([location_constraint |-> Some([kind |-> "Unknown",
                                                     val |-> ""])]),
      acl |-> Ok([grants |-> None]),
      encryption |-> Ok([server_side_encryption_configuration |-> Some(
                 [rules |-> Some(<<
                    [apply_server_side_encryption_by_default |-> Some(
                       [sse_algorithm |-> Some([kind |-> "Unknown",
                                                val |-> "wat"])])]
                 >>)])]),
      logging |-> Ok([logging_enabled |->
                        Some([target_bucket |-> "logs"])]),
      policy |-> Ok([policy |-> Some([json |-> FALSE])]),
      public_access_block |->
          Ok([public_access_block_configuration |-> None]),
      versioning |-> Ok([mfa_delete |-> None, status |-> Some("Unknown")]),
      website |-> Ok([index_document |-> "index.html"]) ]

World(name) ==
    CASE name = "site" -> SiteBucket
      [] name = "vault" -> VaultBucket
      [] name = "plain" -> PlainBucket
      [] name = "odd" -> OddBucket

\* The calls whose Err the client carries out with ?: besides the answer of
\* the account, each of them may fail in transport.  The client turns every
\* Err of the other calls into a finding, which SiteBucket, VaultBucket and
\* PlainBucket exercise.
Propagated ==
    {"location", "acl", "logging", "policy", "versioning"}

\* A policy that names one action and one account: a document without any
\* wildcard or CloudFront identity.
NarrowPolicy ==
    [policy |-> Some([json |-> TRUE, value |->
       JObject([Version |-> JNumber(2012), Statement |-> JArray(<<
         MkStatement(JString(StrAllow), JString(StrGetObject),
                     JObject([AWS |-> JString(StrArnRoot)]))
       >>)])])]

\* The plain bucket may have been given the narrow policy since it was set up.
OtherAnswers(name, api) ==
    IF name = "plain" /\ api = "policy" THEN {Ok(NarrowPolicy)} ELSE {}

Responses(name, api) ==
    {World(name)[api]}
      \cup (IF api \in Propagated THEN {Err("DispatchFailure")} ELSE {})
      \cup OtherAnswers(name, api)

\* At most MaxBuckets buckets are listed or audited in one run.
MaxBuckets == 2

\* The answers to list_buckets: no bucket list, or a list of distinct
\* buckets, one of them possibly without a name.
BucketLists ==
    {s \in UNION {[1..n -> BucketNames] : n \in 0..MaxBuckets} :
        \A i, j \in DOMAIN s : i # j => s[i] # s[j]}

Accounts ==
    {[buckets |-> None]}
      \cup {[buckets |-> Some([i \in DOMAIN s |-> [name |-> Some(s[i])]])] :
              s \in BucketLists}
      \cup {[buckets |-> Some(<<[name |-> None],
                                [name |-> Some("site")]>>)]}

\* let bucket_names = output.buckets.map_or_else(Vec::new, ...filter_map...)
RECURSIVE FilterMapName(_)
FilterMapName(list) ==
    IF list = <<>> THEN <<>>
    ELSE IF Head(list).name.kind = "None" THEN FilterMapName(Tail(list))
    ELSE <<Head(list).name.val>> \o FilterMapName(Tail(list))

ListBucketNames(out) ==
    IF out.buckets.kind = "None" THEN <<>> ELSE FilterMapName(out.buckets.val)

\* The locals of bucket_report before its first if.
NoLocals ==
    [ acl |-> None, encryption |-> None, logging |-> None, policy |-> None,
      public_access_block |-> None, versioning |-> None, website |-> None ]

\* One SDK call, as the history of calls keeps it.
Call(api, name, resp) == [api |-> api, bucket |-> name, resp |-> resp]

reportVars ==
    <<auditVec, bucketArg, account, buckets, rpc, bidx, locals, calls,
      reports>>

\* No report is running.
ReportIdle ==
    /\ auditVec = EmptyBag
    /\ bucketArg = None
    /\ account = [buckets |-> None]
    /\ buckets = <<>>
    /\ rpc = "idle"
    /\ bidx = 0
    /\ locals = NoLocals
    /\ calls = <<>>
    /\ reports = <<>>

mainVars == <<cli, mpc, mainAudits>>

\* main is not running.
MainIdle ==
    /\ cli = None
    /\ mpc = "idle"
    /\ mainAudits = EmptyBag

classifyVars == <<classifier, raw, cpc, finding>>

\* No conversion is under way.
ClassifyIdle ==
    /\ classifier = ""
    /\ raw = None
    /\ cpc = "idle"
    /\ finding = None

policyVars == <<output, ppc, idx, actions, principals>>

\* No policy analysis is running.
PolicyIdle ==
    /\ output = None
    /\ ppc = "idle"
    /\ idx = 0
    /\ actions = <<>>
    /\ principals = <<>>

-----------------------------------------------------------------------------
(* src/s3/audits.rs: Audit and Audits                                      *)

\* enum Audit
Audit ==
    {"Acl", "All", "Cloudfront", "Logging", "MfaDelete", "Policy",
     "PublicAccessBlocks", "ServerSideEncryption", "Versioning", "Website"}

DefaultWithAll == Audit

\* Default for Audits: all audits are enabled by default
Default ==
    {"Acl", "Cloudfront", "Logging", "MfaDelete", "Policy",
     "PublicAccessBlocks", "ServerSideEncryption", "Versioning", "Website"}

\* Audits::new
New == Default

\* Audits::empty
Empty(self) == {}

\* audits.contains(&audit) on a Vec
VecContains(list, audit) == \E i \in DOMAIN list : list[i] = audit

RemoveFirstOnly(self, list) ==
    IF list = <<>> THEN self ELSE self \ {Head(list)}

\* for audit in audits { self.0.remove(&audit); }
RECURSIVE RemoveEach(_, _)
RemoveEach(self, list) ==
    IF list = <<>>
    THEN self
    ELSE RemoveEach(self \ {Head(list)}, Tail(list))

\* for audit in audits { self.0.insert(audit); }
RECURSIVE InsertEach(_, _)
InsertEach(self, list) ==
    IF list = <<>>
    THEN self
    ELSE InsertEach(self \cup {Head(list)}, Tail(list))

DisableNoShortCircuit(self, audits) ==
    IF audits.kind = "Some" THEN RemoveEach(self, audits.val) ELSE self

\* Audits::disable
Disable(self, audits) ==
    IF audits.kind = "Some"
    THEN IF VecContains(audits.val, "All")
         THEN Empty(self)
         ELSE RemoveEach(self, audits.val)
    ELSE self

\* A variant that takes an absent list for "every audit".
EnableNoneIsAll(self, audits) ==
    IF audits.kind = "Some"
    THEN IF VecContains(audits.val, "All")
         THEN New
         ELSE InsertEach(self, audits.val)
    ELSE New

EnableNoShortCircuit(self, audits) ==
    IF audits.kind = "Some" THEN InsertEach(self, audits.val) ELSE self

\* Audits::enable
Enable(self, audits) ==
    IF audits.kind = "Some"
    THEN IF VecContains(audits.val, "All")
         THEN New
         ELSE InsertEach(self, audits.val)
    ELSE self

\* Audits::enabled: every member of the set pushed once, in the iteration
\* order of the HashSet.  The order is unspecified and no caller reads it
\* (client.rs only calls contains), so the Vec is kept as a bag.
RECURSIVE PushEach(_, _)
PushEach(vec, self) ==
    IF self = {}
    THEN vec
    ELSE LET audit == CHOOSE a \in self : TRUE
         IN  PushEach(vec (+) SetToBag({audit}), self \ {audit})

Enabled(self) == PushEach(EmptyBag, self)

\* The audits arguments: None, or Some of a list of at most MaxListLen
\* audits, "All" and repetitions included.
MaxListLen == 2

AuditLists == UNION {[1..n -> Audit] : n \in 0..MaxListLen}

AuditArgs == {None} \cup {Some(list) : list \in AuditLists}

auditsVars == <<auditSet, receiver, apc, op, arg, enabledVec>>

AuditsIdle ==
    /\ auditSet = {}
    /\ receiver = {}
    /\ apc = "idle"
    /\ op = "none"
    /\ arg = None
    /\ enabledVec = EmptyBag

\* Audits::new()
InitAudits ==
    /\ auditSet = New
    /\ receiver = {}
    /\ apc = "ready"
    /\ op = "new"
    /\ arg = None
    /\ enabledVec = EmptyBag
    /\ PolicyIdle
    /\ ReportIdle
    /\ ClassifyIdle
    /\ MainIdle

\* A call of disable on the current set.
CallDisable ==
    /\ apc = "ready"
    /\ \E audits \in AuditArgs :
         /\ auditSet' = Disable(auditSet, audits)
         /\ arg' = audits
    /\ receiver' = auditSet
    /\ op' = "disable"
    /\ apc' = "returned"
    /\ UNCHANGED <<enabledVec, policyVars, reportVars,
                 classifyVars, mainVars>>

\* A call of enable on the current set.
CallEnable ==
    /\ apc = "ready"
    /\ \E audits \in AuditArgs :
         /\ auditSet' = Enable(auditSet, audits)
         /\ arg' = audits
    /\ receiver' = auditSet
    /\ op' = "enable"
    /\ apc' = "returned"
    /\ UNCHANGED <<enabledVec, policyVars, reportVars,
                 classifyVars, mainVars>>

\* The call returns: its argument and the set it was made on are dropped,
\* and the returned Audits is ready for the next call.
Chain ==
    /\ apc = "returned"
    /\ apc' = "ready"
    /\ arg' = None
    /\ receiver' = {}
    /\ UNCHANGED <<auditSet, op, enabledVec, policyVars, reportVars,
                 classifyVars, mainVars>>

\* A call of enabled, which consumes the set.
CallEnabled ==
    /\ apc = "ready"
    /\ enabledVec' = Enabled(auditSet)
    /\ receiver' = auditSet
    /\ op' = "enabled"
    /\ apc' = "consumed"
    /\ UNCHANGED <<auditSet, arg, policyVars, reportVars,
                 classifyVars, mainVars>>

NextAudits ==
    \/ CallDisable
    \/ CallEnable
    \/ Chain
    \/ CallEnabled

-----------------------------------------------------------------------------
(* TryFrom<GetBucketPolicyOutput> for BucketPolicy, src/s3/policy.rs       *)

\* statements_array of the document under analysis
StatementsArray == JIndex(FromStr(output.val).val, "Statement").val

InitPolicy ==
    /\ output \in PolicyOutputs
    /\ ppc = "start"
    /\ idx = 0
    /\ actions = <<>>
    /\ principals = <<>>
    /\ AuditsIdle
    /\ ReportIdle
    /\ ClassifyIdle
    /\ MainIdle

\* From the entry of try_from to the first iteration of the loop: the
\* policy string must be present, must parse, and must hold a Statement
\* array.
TryFromBegin ==
    /\ ppc = "start"
    /\ ppc' = TryFromHead(output)
    /\ idx' = IF ppc' = "loop" THEN 1 ELSE idx
    /\ actions' = <<>>
    /\ principals' = <<>>
    /\ UNCHANGED <<output, auditsVars, reportVars,
                 classifyVars, mainVars>>

\* One iteration of the loop over statements_array.
TryFromStatement ==
    /\ ppc = "loop"
    /\ idx <= Len(StatementsArray)
    /\ LET r == Statement([st |-> "next", actions |-> actions,
                           principals |-> principals],
                          StatementsArray[idx])
       IN  /\ ppc' = IF r.st = "panic" THEN "panic" ELSE "loop"
           /\ idx' = IF r.st = "panic" THEN idx ELSE idx + 1
           /\ actions' = r.actions
           /\ principals' = r.principals
    /\ UNCHANGED <<output, auditsVars, reportVars,
                 classifyVars, mainVars>>

\* Ok(Self { actions, principals }) once the array is exhausted.
TryFromReturn ==
    /\ ppc = "loop"
    /\ idx > Len(StatementsArray)
    /\ ppc' = "ok"
    /\ UNCHANGED <<output, idx, actions, principals, auditsVars, reportVars,
                 classifyVars, mainVars>>

NextPolicy ==
    \/ TryFromBegin
    \/ TryFromStatement
    \/ TryFromReturn

SpecPolicy == InitPolicy /\ [][NextPolicy]_vars

\* The audit selection on its own: Audits::new() and any sequence of
\* disable and enable calls, ended by enabled().
SpecAudits == InitAudits /\ [][NextAudits]_vars

-----------------------------------------------------------------------------
(* Client::report and Client::bucket_report, src/s3/client.rs              *)

\* The name of the bucket under audit.
BucketName == buckets[bidx].name

\* bucket_names of list_buckets
BucketNamesListed == ListBucketNames(account)

\* main.rs hands report the Vec of Audits::enabled() and cli.bucket.  The
\* sets that disable and enable can build from Audits::new() are the subsets
\* of the default set.  The account's list is only read when no bucket is
\* named.
InitReport ==
    /\ auditVec \in {Enabled(S) : S \in SUBSET Default}
    /\ bucketArg \in {None} \cup {Some(name) : name \in BucketNames}
    /\ account \in IF bucketArg = None THEN Accounts
                   ELSE {[buckets |-> None]}
    /\ buckets = <<>>
    /\ rpc = "start"
    /\ bidx = 0
    /\ locals = NoLocals
    /\ calls = <<>>
    /\ reports = <<>>
    /\ PolicyIdle
    /\ AuditsIdle
    /\ ClassifyIdle
    /\ MainIdle

\* report, bucket None: the list_buckets call of Client::list_buckets.
ListBuckets ==
    /\ rpc = "start"
    /\ bucketArg = None
    /\ \E resp \in {Ok(account), Err("DispatchFailure")} :
         /\ calls' = Append(calls, Call("list_buckets", "", resp))
         /\ rpc' = IF resp.kind = "Err" THEN "err" ELSE "regions"
    /\ UNCHANGED <<auditVec, bucketArg, account, buckets, bidx, locals,
                   reports, policyVars, auditsVars,
                   classifyVars, mainVars>>

\* One turn of the loop of list_buckets: the region of the next name.
ListBucketsRegion ==
    /\ rpc = "regions"
    /\ Len(buckets) < Len(BucketNamesListed)
    /\ LET name == BucketNamesListed[Len(buckets) + 1]
       IN  \E resp \in Responses(name, "location") :
             LET region == GetBucketRegion(resp)
             IN  /\ calls' = Append(calls,
                                    Call("get_bucket_location", name, resp))
                 /\ buckets' =
                      IF region.st = "ok"
                      THEN Append(buckets,
                                  [name |-> name, region |-> region.val])
                      ELSE buckets
                 /\ rpc' = IF region.st = "ok" THEN "regions" ELSE "err"
    /\ UNCHANGED <<auditVec, bucketArg, account, bidx, locals, reports,
                   policyVars, auditsVars,
                   classifyVars, mainVars>>

\* list_buckets returns Ok(buckets); report enters its loop over them.
ListBucketsReturn ==
    /\ rpc = "regions"
    /\ Len(buckets) = Len(BucketNamesListed)
    /\ rpc' = "loop"
    /\ bidx' = 1
    /\ UNCHANGED <<auditVec, bucketArg, account, buckets, locals, calls,
                   reports, policyVars, auditsVars,
                   classifyVars, mainVars>>

\* report, bucket Some(bucket): its region, then the loop over the one
\* bucket.
ReportOneBucket ==
    /\ rpc = "start"
    /\ bucketArg # None
    /\ \E resp \in Responses(bucketArg.val, "location") :
         LET region == GetBucketRegion(resp)
         IN  /\ calls' = Append(calls, Call("get_bucket_location",
                                            bucketArg.val, resp))
             /\ buckets' =
                  IF region.st = "ok"
                  THEN <<[name |-> bucketArg.val, region |-> region.val]>>
                  ELSE buckets
             /\ rpc' = IF region.st = "ok" THEN "loop" ELSE "err"
             /\ bidx' = IF region.st = "ok" THEN 1 ELSE bidx
    /\ UNCHANGED <<auditVec, bucketArg, account, locals, reports,
                   policyVars, auditsVars,
                   classifyVars, mainVars>>

\* The head of the loop over buckets: bucket_report is entered for the next
\* bucket.
BucketReportBegin ==
    /\ rpc = "loop"
    /\ bidx <= Len(buckets)
    /\ rpc' = "acl"
    /\ locals' = NoLocals
    /\ UNCHANGED <<auditVec, bucketArg, account, buckets, bidx, calls,
                   reports, policyVars, auditsVars,
                   classifyVars, mainVars>>

\* What no step of bucket_report changes.
reportFrame ==
    <<auditVec, bucketArg, account, buckets, bidx, reports, policyVars,
      auditsVars, classifyVars, mainVars>>

\* let acl = if audits.contains(&Audit::Acl) { ...await? ... } else { None }
AuditAcl ==
    /\ rpc = "acl"
    /\ IF AuditsContain(auditVec, "Acl")
       THEN \E resp \in Responses(BucketName, "acl") :
              LET r == GetBucketAcl(resp)
              IN  /\ calls' = Append(calls,
                                     Call("get_bucket_acl", BucketName, resp))
                  /\ locals' = IF r.st = "ok"
                               THEN [locals EXCEPT !.acl = Some(r.val)]
                               ELSE locals
                  /\ rpc' = IF r.st = "ok" THEN "encryption" ELSE r.st
       ELSE /\ locals' = [locals EXCEPT !.acl = None]
            /\ rpc' = "encryption"
            /\ UNCHANGED calls
    /\ UNCHANGED reportFrame

\* let encryption = if audits.contains(&Audit::ServerSideEncryption) ...
AuditEncryption ==
    /\ rpc = "encryption"
    /\ IF AuditsContain(auditVec, "ServerSideEncryption")
       THEN \E resp \in Responses(BucketName, "encryption") :
              LET r == GetBucketEncryption(resp)
              IN  /\ calls' = Append(calls, Call("get_bucket_encryption",
                                                 BucketName, resp))
                  /\ locals' = IF r.st = "ok"
                               THEN [locals EXCEPT !.encryption = Some(r.val)]
                               ELSE locals
                  /\ rpc' = IF r.st = "ok" THEN "logging" ELSE r.st
       ELSE /\ locals' = [locals EXCEPT !.encryption = None]
            /\ rpc' = "logging"
            /\ UNCHANGED calls
    /\ UNCHANGED reportFrame

\* let logging = if audits.contains(&Audit::Logging) ...
AuditLogging ==
    /\ rpc = "logging"
    /\ IF AuditsContain(auditVec, "Logging")
       THEN \E resp \in Responses(BucketName, "logging") :
              LET r == GetBucketLogging(resp)
              IN  /\ calls' = Append(calls, Call("get_bucket_logging",
                                                 BucketName, resp))
                  /\ locals' = IF r.st = "ok"
                               THEN [locals EXCEPT !.logging = Some(r.val)]
                               ELSE locals
                  /\ rpc' = IF r.st = "ok" THEN "policy" ELSE r.st
       ELSE /\ locals' = [locals EXCEPT !.logging = None]
            /\ rpc' = "policy"
            /\ UNCHANGED calls
    /\ UNCHANGED reportFrame

\* A variant that fetches the policy for the Cloudfront audit as well.
AuditPolicyOrCloudfront ==
    /\ rpc = "policy"
    /\ IF AuditsContain(auditVec, "Policy")
          \/ AuditsContain(auditVec, "Cloudfront")
       THEN \E resp \in Responses(BucketName, "policy") :
              LET r == GetBucketPolicy(resp)
              IN  /\ calls' = Append(calls, Call("get_bucket_policy",
                                                 BucketName, resp))
                  /\ locals' = IF r.st = "ok"
                               THEN [locals EXCEPT !.policy = Some(r.val)]
                               ELSE locals
                  /\ rpc' = IF r.st = "ok" THEN "public_access_block"
                            ELSE r.st
       ELSE /\ locals' = [locals EXCEPT !.policy = None]
            /\ rpc' = "public_access_block"
            /\ UNCHANGED calls
    /\ UNCHANGED reportFrame

\* let policy = if audits.contains(&Audit::Policy) ...
AuditPolicy ==
    /\ rpc = "policy"
    /\ IF AuditsContain(auditVec, "Policy")
       THEN \E resp \in Responses(BucketName, "policy") :
              LET r == GetBucketPolicy(resp)
              IN  /\ calls' = Append(calls, Call("get_bucket_policy",
                                                 BucketName, resp))
                  /\ locals' = IF r.st = "ok"
                               THEN [locals EXCEPT !.policy = Some(r.val)]
                               ELSE locals
                  /\ rpc' = IF r.st = "ok" THEN "public_access_block"
                            ELSE r.st
       ELSE /\ locals' = [locals EXCEPT !.policy = None]
            /\ rpc' = "public_access_block"
            /\ UNCHANGED calls
    /\ UNCHANGED reportFrame

\* let public_access_block = if audits.contains(&Audit::PublicAccessBlocks)
AuditPublicAccessBlock ==
    /\ rpc = "public_access_block"
    /\ IF AuditsContain(auditVec, "PublicAccessBlocks")
       THEN \E resp \in Responses(BucketName, "public_access_block") :
              LET r == GetPublicAccessBlock(resp)
              IN  /\ calls' = Append(calls, Call("get_public_access_block",
                                                 BucketName, resp))
                  /\ locals' =
                       IF r.st = "ok"
                       THEN [locals EXCEPT
                               !.public_access_block = Some(r.val)]
                       ELSE locals
                  /\ rpc' = IF r.st = "ok" THEN "versioning" ELSE r.st
       ELSE /\ locals' = [locals EXCEPT !.public_access_block = None]
            /\ rpc' = "versioning"
            /\ UNCHANGED calls
    /\ UNCHANGED reportFrame

\* let versioning = if audit_versioning ...
AuditVersioningStep ==
    /\ rpc = "versioning"
    /\ IF AuditVersioning(auditVec)
       THEN \E resp \in Responses(BucketName, "versioning") :
              LET r == GetBucketVersioning(resp)
              IN  /\ calls' = Append(calls, Call("get_bucket_versioning",
                                                 BucketName, resp))
                  /\ locals' = IF r.st = "ok"
                               THEN [locals EXCEPT !.versioning = Some(r.val)]
                               ELSE locals
                  /\ rpc' = IF r.st = "ok" THEN "website" ELSE r.st
       ELSE /\ locals' = [locals EXCEPT !.versioning = None]
            /\ rpc' = "website"
            /\ UNCHANGED calls
    /\ UNCHANGED reportFrame

\* let website = if audits.contains(&Audit::Website) ...
AuditWebsite ==
    /\ rpc = "website"
    /\ IF AuditsContain(auditVec, "Website")
       THEN \E resp \in Responses(BucketName, "website") :
              LET r == GetBucketWebsite(resp)
              IN  /\ calls' = Append(calls, Call("get_bucket_website",
                                                 BucketName, resp))
                  /\ locals' = IF r.st = "ok"
                               THEN [locals EXCEPT !.website = Some(r.val)]
                               ELSE locals
                  /\ rpc' = IF r.st = "ok" THEN "build" ELSE r.st
       ELSE /\ locals' = [locals EXCEPT !.website = None]
            /\ rpc' = "build"
            /\ UNCHANGED calls
    /\ UNCHANGED reportFrame

\* let report = Report { ... }
MakeReport(name, l) ==
    [ name |-> name,
      acl |-> l.acl,
      encryption |-> l.encryption,
      logging |-> l.logging,
      policy |-> l.policy,
      public_access_block |-> l.public_access_block,
      versioning |-> l.versioning,
      website |-> l.website ]

\* bucket_report returns Ok(report); report pushes it and goes on with the
\* next bucket.
BucketReportReturn ==
    /\ rpc = "build"
    /\ reports' = Append(reports, MakeReport(BucketName, locals))
    /\ bidx' = bidx + 1
    /\ rpc' = "loop"
    /\ UNCHANGED <<auditVec, bucketArg, account, buckets, locals, calls,
                   policyVars, auditsVars,
                   classifyVars, mainVars>>

\* The loop is over: Ok(Reports::new(reports)).
ReportReturn ==
    /\ rpc = "loop"
    /\ bidx > Len(buckets)
    /\ rpc' = "ok"
    /\ UNCHANGED <<auditVec, bucketArg, account, buckets, bidx, locals,
                   calls, reports, policyVars, auditsVars,
                   classifyVars, mainVars>>

NextReport ==
    \/ ListBuckets
    \/ ListBucketsRegion
    \/ ListBucketsReturn
    \/ ReportOneBucket
    \/ BucketReportBegin
    \/ AuditAcl
    \/ AuditEncryption
    \/ AuditLogging
    \/ AuditPolicy
    \/ AuditPublicAccessBlock
    \/ AuditVersioningStep
    \/ AuditWebsite
    \/ BucketReportReturn
    \/ ReportReturn

\* One run of Client::report, for any selection of audits.
SpecReport == InitReport /\ [][NextReport]_vars

\* let reports = client.report(cli.bucket, audits).await?; in main: the
\* Reports of Ok(reports), and none at all when report returned an Err or
\* panicked, whatever its loop had pushed by then.
\* A variant that hands over the Reports pushed before a failure.
ReportsPushedSoFar == reports

ReportsReturned == IF rpc = "ok" THEN reports ELSE << >>

-----------------------------------------------------------------------------
(* The classifiers on their own: each From impl applied to a raw output.   *)

MaxGrants == 3
MaxRules == 2

\* Grantee.uri values: the two public groups, a group that is not public,
\* and a URI that only starts like a public one.
GranteeUris ==
    PUBLIC_URIS
      \cup {"http://acs.amazonaws.com/groups/s3/LogDelivery",
            "http://acs.amazonaws.com/groups/global/AllUsers/"}

\* Grant: without a grantee, with a grantee without a URI, with a URI.
GrantValues ==
    {[grantee |-> None], [grantee |-> Some([uri |-> None])]}
      \cup {[grantee |-> Some([uri |-> Some(u)])] : u \in GranteeUris}

\* GetBucketAclOutput
AclOutputs ==
    {[grants |-> None]}
      \cup {[grants |-> Some(g)] :
              g \in UNION {[1..n -> GrantValues] : n \in 0..MaxGrants}}

\* ServerSideEncryption: the two known algorithms and Unknown(name)
SseAlgorithms ==
    {[kind |-> "Aes256", val |-> "AES256"],
     [kind |-> "AwsKms", val |-> "aws:kms"],
     [kind |-> "Unknown", val |-> "wat"],
     [kind |-> "Unknown", val |-> "aws:kms:dsse"]}

\* ServerSideEncryptionRule
RuleValues ==
    {[apply_server_side_encryption_by_default |-> None],
     [apply_server_side_encryption_by_default |->
        Some([sse_algorithm |-> None])]}
      \cup {[apply_server_side_encryption_by_default |->
               Some([sse_algorithm |-> Some(a)])] : a \in SseAlgorithms}

\* GetBucketEncryptionOutput
EncryptionOutputs ==
    {[server_side_encryption_configuration |-> None],
     [server_side_encryption_configuration |-> Some([rules |-> None])]}
      \cup {[server_side_encryption_configuration |-> Some([rules |-> Some(r)])] :
              r \in UNION {[1..n -> RuleValues] : n \in 0..MaxRules}}

\* EncryptionResult
EncryptionResults ==
    {Err("ServiceError")} \cup {Ok(o) : o \in EncryptionOutputs}

\* GetBucketLoggingOutput
LoggingOutputs ==
    {[logging_enabled |-> None],
     [logging_enabled |-> Some([target_bucket |-> "logs"])]}

\* Option<bool>
OptionBool == {None, Some(TRUE), Some(FALSE)}

\* The Result of the get_public_access_block call
PublicAccessBlockResults ==
    {Err("ServiceError"), Ok([public_access_block_configuration |-> None])}
      \cup {Ok([public_access_block_configuration |-> Some(
                  [block_public_acls |-> a, block_public_policy |-> b,
                   ignore_public_acls |-> c, restrict_public_buckets |-> d])]) :
              a \in OptionBool, b \in OptionBool,
              c \in OptionBool, d \in OptionBool}

\* GetBucketVersioningOutput; "Unknown" stands for the Unknown(..) variant
\* of MfaDeleteStatus and of BucketVersioningStatus.
VersioningOutputs ==
    {[mfa_delete |-> m, status |-> v] :
        m \in {None, Some("Enabled"), Some("Disabled"), Some("Unknown")},
        v \in {None, Some("Enabled"), Some("Suspended"), Some("Unknown")}}

\* WebsiteResult
WebsiteResults ==
    {Ok([index_document |-> "index.html"]), Err("ServiceError")}

Classifiers ==
    {"acl", "encryption", "logging", "public_access_block", "versioning",
     "website"}

RawInputs(c) ==
    CASE c = "acl" -> AclOutputs
      [] c = "encryption" -> EncryptionResults
      [] c = "logging" -> LoggingOutputs
      [] c = "public_access_block" -> PublicAccessBlockResults
      [] c = "versioning" -> VersioningOutputs
      [] c = "website" -> WebsiteResults

InitClassify ==
    /\ classifier \in Classifiers
    /\ raw \in RawInputs(classifier)
    /\ cpc = "ready"
    /\ finding = None
    /\ PolicyIdle
    /\ AuditsIdle
    /\ ReportIdle
    /\ MainIdle

classifyFrame ==
    <<classifier, raw, policyVars, auditsVars, reportVars, mainVars>>

\* let config: BucketAcl = output.into();
ClassifyAcl ==
    /\ cpc = "ready" /\ classifier = "acl"
    /\ finding' = Returned_Ok(BucketAclFrom(raw))
    /\ cpc' = "done"
    /\ UNCHANGED classifyFrame

\* let config: BucketEncryption = output.into();
ClassifyEncryption ==
    /\ cpc = "ready" /\ classifier = "encryption"
    /\ finding' = Returned_Ok(BucketEncryptionFrom(raw))
    /\ cpc' = "done"
    /\ UNCHANGED classifyFrame

\* let config: BucketLogging = output.into();
ClassifyLogging ==
    /\ cpc = "ready" /\ classifier = "logging"
    /\ finding' = Returned_Ok(BucketLoggingFrom(raw))
    /\ cpc' = "done"
    /\ UNCHANGED classifyFrame

\* let config = match output { Err(_) => default(), Ok(o) => o.into() };
ClassifyPublicAccessBlock ==
    /\ cpc = "ready" /\ classifier = "public_access_block"
    /\ finding' = GetPublicAccessBlock(raw)
    /\ cpc' = "done"
    /\ UNCHANGED classifyFrame

\* let config: BucketVersioning = output.into();
ClassifyVersioning ==
    /\ cpc = "ready" /\ classifier = "versioning"
    /\ finding' = BucketVersioningFrom(raw)
    /\ cpc' = "done"
    /\ UNCHANGED classifyFrame

\* let config: BucketWebsite = output.into();
ClassifyWebsite ==
    /\ cpc = "ready" /\ classifier = "website"
    /\ finding' = Returned_Ok(BucketWebsiteFrom(raw))
    /\ cpc' = "done"
    /\ UNCHANGED classifyFrame

NextClassify ==
    \/ ClassifyAcl
    \/ ClassifyEncryption
    \/ ClassifyLogging
    \/ ClassifyPublicAccessBlock
    \/ ClassifyVersioning
    \/ ClassifyWebsite

\* One conversion of one raw output, for every classifier and every shape
\* of its input.
SpecClassify == InitClassify /\ [][NextClassify]_vars

\* ---------------------------------------------------------------------
\* main (src/main.rs): the audit selection handed to Client::report
\* ---------------------------------------------------------------------

\* The value of --disable-check or --enable-check: None when the flag is
\* absent, otherwise the list of the values given, which names at least one.
CliArgs == {None} \cup {Some(list) : list \in AuditLists \ {<< >>}}

\* The selection with enable applied before disable.
MainAuditsEnableFirst(disable_check, enable_check) ==
    Enabled(Disable(Enable(New, enable_check), disable_check))

\* Audits::new().disable(cli.disable_check).enable(cli.enable_check).enabled()
MainAudits(disable_check, enable_check) ==
    Enabled(Enable(Disable(New, disable_check), enable_check))

\* CliConfig::parse() has returned.
InitMain ==
    /\ cli \in [disable_check : CliArgs, enable_check : CliArgs]
    /\ mpc = "parsed"
    /\ mainAudits = EmptyBag
    /\ PolicyIdle
    /\ AuditsIdle
    /\ ReportIdle
    /\ ClassifyIdle

\* let audits = Audits::new().disable(..).enable(..).enabled();
MainSelectAudits ==
    /\ mpc = "parsed"
    /\ mainAudits' = MainAudits(cli.disable_check, cli.enable_check)
    /\ mpc' = "selected"
    /\ UNCHANGED <<cli, policyVars, auditsVars, reportVars, classifyVars>>

NextMain == MainSelectAudits

SpecMain == InitMain /\ [][NextMain]_vars

-----------------------------------------------------------------------------
(* src/s3/report.rs: what a Report shows.                                  *)

\* One println! of Report::text: which finding it shows and its value.
Line(shown, val) == [line |-> shown, val |-> val]

\* if let Some(x) = &slot { println!(...) }
WhenSome(slot, lines) == IF slot.kind = "Some" THEN lines ELSE << >>

\* A variant that prints the findings in the order they were fetched.
TextInFetchOrder(report) ==
    << Line("name", report.name) >>
    \o WhenSome(report.acl, << Line("acl", report.acl.val) >>)
    \o WhenSome(report.encryption,
                << Line("encryption", report.encryption.val) >>)
    \o WhenSome(report.logging, << Line("logging", report.logging.val) >>)
    \o WhenSome(report.policy,
                IF report.policy.val.kind = "None"
                THEN << Line("no_bucket_policy", "") >>
                ELSE << Line("policy_wildcards",
                             Wildcards(report.policy.val.val.actions,
                                       report.policy.val.val.principals)),
                        Line("policy_cloudfront",
                             CloudFrontDistributions(
                                 report.policy.val.val.principals)) >>)
    \o WhenSome(report.public_access_block,
                << Line("public_access_block", "header") >>
                \o [i \in DOMAIN report.public_access_block.val |->
                      Line(report.public_access_block.val[i].kind,
                           report.public_access_block.val[i].val)])
    \o WhenSome(report.versioning,
                << Line("versioning", report.versioning.val.versioning),
                   Line("mfa_delete", report.versioning.val.mfa_delete) >>)
    \o WhenSome(report.website, << Line("website", report.website.val) >>)

\* Report::text, as the sequence of lines it prints.
Text(report) ==
    << Line("name", report.name) >>
    \o WhenSome(report.public_access_block,
                << Line("public_access_block", "header") >>
                \o [i \in DOMAIN report.public_access_block.val |->
                      Line(report.public_access_block.val[i].kind,
                           report.public_access_block.val[i].val)])
    \o WhenSome(report.encryption,
                << Line("encryption", report.encryption.val) >>)
    \o WhenSome(report.versioning,
                << Line("versioning", report.versioning.val.versioning),
                   Line("mfa_delete", report.versioning.val.mfa_delete) >>)
    \o WhenSome(report.website, << Line("website", report.website.val) >>)
    \o WhenSome(report.policy,
                IF report.policy.val.kind = "None"
                THEN << Line("no_bucket_policy", "") >>
                ELSE << Line("policy_wildcards",
                             Wildcards(report.policy.val.val.actions,
                                       report.policy.val.val.principals)),
                        Line("policy_cloudfront",
                             CloudFrontDistributions(
                                 report.policy.val.val.principals)) >>)
    \o WhenSome(report.acl, << Line("acl", report.acl.val) >>)
    \o WhenSome(report.logging, << Line("logging", report.logging.val) >>)

\* The findings Report::text prints a line for.
TextFindings(report) == {Text(report)[i].line : i \in DOMAIN Text(report)}

\* A variant that leaves the column out when the block is not set.
BlockColumnIfSet(slot, kind) ==
    IF slot.kind = "None" THEN None
    ELSE LET hits == {i \in DOMAIN slot.val :
                        slot.val[i].kind = kind /\ slot.val[i].val}
         IN  IF hits = {} THEN None ELSE Some(TRUE)

\* for block in blocks.iter() { match block { Kind(b) => column = Some(*b) } }
BlockColumn(slot, kind) ==
    IF slot.kind = "None" THEN None
    ELSE LET hits == {i \in DOMAIN slot.val : slot.val[i].kind = kind}
         IN  IF hits = {} THEN None
             ELSE Some(slot.val[CHOOSE i \in hits :
                                  \A j \in hits : j <= i].val)

\* The encryption column's text.
EncryptionColumn(encryption) ==
    CASE encryption.kind = "Default" -> "AES256"
      [] encryption.kind = "Kms"     -> "aws:kms"
      [] encryption.kind = "None"    -> "None"
      [] OTHER                       -> encryption.val

\* impl From<&Report> for CsvOutput
CsvOutputFrom(report) ==
    [ name |-> Some(report.name),
      acl |-> IF report.acl.kind = "Some"
              THEN Some(IF report.acl.val = "Private" THEN "private"
                        ELSE "public")
              ELSE None,
      block_public_acls |->
          BlockColumn(report.public_access_block, "BlockPublicAcls"),
      block_public_policy |->
          BlockColumn(report.public_access_block, "BlockPublicPolicy"),
      encryption |-> IF report.encryption.kind = "Some"
                     THEN Some(Some(EncryptionColumn(report.encryption.val)))
                     ELSE None,
      ignore_public_acls |->
          BlockColumn(report.public_access_block, "IgnorePublicAcls"),
      logging |-> IF report.logging.kind = "Some"
                  THEN Some(report.logging.val.kind = "Enabled")
                  ELSE None,
      mfa_delete |-> IF report.versioning.kind = "Some"
                     THEN Some(report.versioning.val.mfa_delete = "Enabled")
                     ELSE None,
      policy_wildcard_principals |->
          IF report.policy.kind = "Some"
          THEN Some(IF report.policy.val.kind = "None" THEN FALSE
                    ELSE Wildcards(report.policy.val.val.actions,
                                   report.policy.val.val.principals) > 0)
          ELSE None,
      restrict_public_buckets |->
          BlockColumn(report.public_access_block, "RestrictPublicBuckets"),
      versioning |-> IF report.versioning.kind = "Some"
                     THEN Some(report.versioning.val.versioning = "Enabled")
                     ELSE None,
      website |-> IF report.website.kind = "Some"
                  THEN Some(report.website.val = "Enabled")
                  ELSE None ]

\* A variant that leaves the policy column out for a bucket without a
\* policy.
CsvColumnsPolicyIfSet(report) ==
    LET row == CsvOutputFrom(report)
    IN  {c \in DOMAIN row :
           /\ row[c].kind = "Some"
           /\ c = "policy_wildcard_principals"
                => report.policy.val.kind = "Some"}

\* #[serde(skip_serializing_if = "Option::is_none")]: the columns of the row
\* Report::csv writes.
CsvColumns(report) ==
    LET row == CsvOutputFrom(report)
    IN  {c \in DOMAIN row : row[c].kind = "Some"}

\* The fields of CsvOutput in the order of the struct, which is the order
\* serde serialises them in.
CsvFieldOrder ==
    << "name", "acl", "block_public_acls", "block_public_policy",
       "encryption", "ignore_public_acls", "logging", "mfa_delete",
       "policy_wildcard_principals", "restrict_public_buckets", "versioning",
       "website" >>

\* The header that goes with the row of a Report: the names of the fields
\* that are serialised.
CsvHeader(report) ==
    LET columns == CsvColumns(report)
        Kept(c) == c \in columns
    IN  SelectSeq(CsvFieldOrder, Kept)

\* The row of a Report: the values of the fields that are serialised.
CsvRow(report) ==
    LET header == CsvHeader(report)
        row == CsvOutputFrom(report)
    IN  [i \in DOMAIN header |-> row[header[i]].val]

\* Reports::output for CSV: every Report goes through one writer, which
\* writes the header before the first row and never again.
ReportsCsv(rs) ==
    IF rs = << >> THEN << >>
    ELSE << [kind |-> "header", fields |-> CsvHeader(rs[1])] >>
         \o [i \in DOMAIN rs |-> [kind |-> "row", fields |-> CsvRow(rs[i])]]

\* Reports::output for text: the text of every Report, in order.
ReportsText(rs) == [i \in DOMAIN rs |-> Text(rs[i])]

-----------------------------------------------------------------------------
(* Properties of the policy analysis.                                      *)

\* The statements the loop has already taken, and those of them whose
\* Effect is not the string "Deny".
Processed == SubSeq(StatementsArray, 1, idx - 1)

HasDenyEffect(statement) == JIndex(statement, "Effect") = JString(StrDeny)

NotDenied(statement) == ~HasDenyEffect(statement)

InAnalysis == ppc \in {"loop", "ok"}

RECURSIVE SumSeq(_)
SumSeq(nums) ==
    IF nums = <<>> THEN 0 ELSE Head(nums) + SumSeq(Tail(nums))

SumOver(seq, F(_)) == SumSeq([i \in DOMAIN seq |-> F(seq[i])])

HasStar(s) == \E k \in DOMAIN s : s[k] = "*"

IsStar(s) == Len(s) = 1 /\ s[1] = "*"

HasOaiPrefix(s) ==
    /\ Len(s) >= Len(CLOUDFRONT_OAI)
    /\ \A k \in DOMAIN CLOUDFRONT_OAI : s[k] = CLOUDFRONT_OAI[k]

ActionNames(statement) == ActionFrom(JIndex(statement, "Action")).names

PrincipalNames(statement) ==
    PrincipalFrom(JIndex(statement, "Principal")).names

AllowStarStar ==
    MkStatement(JString(StrAllow), JString(WILDCARD), JString(WILDCARD))

\* C1: a statement whose Effect is Deny contributes 0 to wildcards() and to
\* cloudfront_distributions(), whatever its Action and Principal hold: at
\* every point of the analysis both counts are those of the analysis of the
\* same statements with the Deny statements removed.
C1_DenyContributesNothing ==
    InAnalysis =>
        LET r == Statements(EmptyAcc, SelectSeq(Processed, NotDenied)) IN
        /\ r.st = "next"
        /\ Wildcards(actions, principals) = Wildcards(r.actions, r.principals)
        /\ CloudFrontDistributions(principals)
             = CloudFrontDistributions(r.principals)

\* An Allow statement with two wildcards followed by a Deny statement whose
\* principals hold "*" and CloudFront OAI arns: the analysis ends with the
\* counts of the Allow statement alone.
C1_Witness ==
    /\ ppc = "ok"
    /\ StatementsArray =
         <<AllowStarStar,
           MkStatement(JString(StrDeny), JString(StrGetObject),
                       JObject([AWS |-> JArray(<<JString(StrOaiE1234),
                                                 JString(WILDCARD),
                                                 JString(StrOaiNoSpace)>>)]))>>
    /\ Wildcards(actions, principals) = 2
    /\ CloudFrontDistributions(principals) = 0

\* C2: Principal::wildcards() counts exactly the extracted principals that
\* are the one-character string "*"; "arn:aws:iam::*:user/*" counts 0.
C2_PrincipalWildcardExact ==
    InAnalysis =>
        /\ PrincipalWildcards(principals)
             = Cardinality({i \in DOMAIN principals : IsStar(principals[i])})
        /\ PrincipalWildcards(<<StrArnStar>>) = 0
        /\ PrincipalWildcards(<<WILDCARD>>) = 1

\* The principals of test_policy_some_wildcard_principals were extracted and
\* count 1.
C2_Witness ==
    /\ ppc = "ok"
    /\ principals = <<StrArnStar, WILDCARD>>
    /\ PrincipalWildcards(principals) = 1

\* C3: Action::wildcards() counts the extracted actions that contain "*"
\* anywhere; the two action lists of the claim count 2 each.
C3_ActionWildcardSubstring ==
    InAnalysis =>
        /\ ActionWildcards(actions)
             = Cardinality({i \in DOMAIN actions : HasStar(actions[i])})
        /\ (actions = <<StrS3Star, StrIamAccessKey, StrGetObject>>
              => ActionWildcards(actions) = 2)
        /\ (actions = <<StrListAllMyBuckets, StrGetObject, StrS3Star,
                        WILDCARD>>
              => ActionWildcards(actions) = 2)

\* The action list ["s3:*", "iam:*AccessKey*", "s3:GetObject"] was
\* extracted from an Allow statement.
C3_Witness ==
    /\ ppc = "ok"
    /\ actions = <<StrS3Star, StrIamAccessKey, StrGetObject>>
    /\ ActionWildcards(actions) = 2

StatementWildcards(statement) ==
    Cardinality({i \in DOMAIN ActionNames(statement) :
                    HasStar(ActionNames(statement)[i])})
      + Cardinality({i \in DOMAIN PrincipalNames(statement) :
                        IsStar(PrincipalNames(statement)[i])})

\* C4: wildcards() is the sum, over the statements that are not Deny, of the
\* statement's action wildcards plus its principal wildcards, each
\* occurrence counted; one Allow statement with Action "*" and Principal "*"
\* gives 2, and the statement of
\* test_policy_some_wildcard_actions_and_principals gives 4.
C4_WildcardsIsSum ==
    InAnalysis =>
        /\ Wildcards(actions, principals)
             = SumOver(SelectSeq(Processed, NotDenied), StatementWildcards)
        /\ (Processed = <<AllowStarStar>>
              => Wildcards(actions, principals) = 2)
        /\ (Processed =
              <<MkStatement(JString(StrAllow),
                            JArray(<<JString(StrS3Star),
                                     JString(StrS3StarObject),
                                     JString(WILDCARD)>>),
                            JObject([AWS |->
                                JArray(<<JString(StrArnStar),
                                         JString(WILDCARD)>>)]))>>
              => Wildcards(actions, principals) = 4)

\* The same two wildcards in two Allow statements count four times.
C4_Witness ==
    /\ ppc = "ok"
    /\ StatementsArray = <<AllowStarStar, AllowStarStar>>
    /\ Wildcards(actions, principals) = 4

StatementOaiPrincipals(statement) ==
    Cardinality({i \in DOMAIN PrincipalNames(statement) :
                    HasOaiPrefix(PrincipalNames(statement)[i])})

\* C5: cloudfront_distributions() is the number of principals extracted from
\* the statements that are not Deny that start with CLOUDFRONT_OAI; such a
\* principal is no wildcard and the principal "*" is no distribution.
C5_CloudfrontCount ==
    InAnalysis =>
        /\ CloudFrontDistributions(principals)
             = SumOver(SelectSeq(Processed, NotDenied), StatementOaiPrincipals)
        /\ \A i \in DOMAIN principals :
             /\ HasOaiPrefix(principals[i])
                  => /\ CloudFrontDistributions(<<principals[i]>>) = 1
                     /\ Wildcards(<<>>, <<principals[i]>>) = 0
             /\ IsStar(principals[i])
                  => /\ CloudFrontDistributions(<<principals[i]>>) = 0
                     /\ Wildcards(<<>>, <<principals[i]>>) = 1

\* One Allow statement whose principals are an OAI arn, "*" and an arn that
\* lacks the last character of the prefix: one distribution, one wildcard.
C5_Witness ==
    /\ ppc = "ok"
    /\ principals = <<StrOaiE1234, WILDCARD, StrOaiNoSpace>>
    /\ CloudFrontDistributions(principals) = 1
    /\ Wildcards(actions, principals) = 1

-----------------------------------------------------------------------------
(* Properties of the audit selection.                                      *)

NineCategories ==
    {"Acl", "Cloudfront", "Logging", "MfaDelete", "Policy",
     "PublicAccessBlocks", "ServerSideEncryption", "Versioning", "Website"}

Range(list) == {list[i] : i \in DOMAIN list}

Returned(method) == apc = "returned" /\ op = method

ListedAll == arg.kind = "Some" /\ \E i \in DOMAIN arg.val : arg.val[i] = "All"

ListedWithoutAll ==
    arg.kind = "Some" /\ \A i \in DOMAIN arg.val : arg.val[i] # "All"

\* C6: starting from Audits::new(), after any sequence of disable and enable
\* calls with any arguments the set never contains Audit::All, and the Vec
\* returned by enabled() never contains it.
C6_NeverContainsAll ==
    /\ "All" \notin auditSet
    /\ ~BagIn("All", enabledVec)

\* enable was called with a list that names All twice, on a set from which
\* an earlier call had removed audits.
C6_Witness ==
    /\ Returned("enable")
    /\ arg = Some(<<"All", "All">>)
    /\ receiver = NineCategories \ {"Policy", "Website"}
    /\ auditSet = NineCategories

\* C7: on any set, with a list that contains All at any position, disable
\* returns the empty set and enable returns exactly the nine concrete
\* categories.
C7_AllAbsorbs ==
    /\ (Returned("disable") /\ ListedAll) => auditSet = {}
    /\ (Returned("enable") /\ ListedAll) => auditSet = NineCategories

\* enable([Logging, All]) on the empty set returns the nine categories.
C7_Witness ==
    /\ Returned("enable")
    /\ arg = Some(<<"Logging", "All">>)
    /\ receiver = {}
    /\ auditSet = NineCategories

\* C8: on any set S, with a list L that does not contain All, disable returns
\* exactly S minus the members of L and enable exactly S plus the members
\* of L; the membership of every audit that L does not name is unchanged.
C8_ExactRemoveAndAdd ==
    /\ (Returned("disable") /\ ListedWithoutAll)
         => auditSet = receiver \ Range(arg.val)
    /\ (Returned("enable") /\ ListedWithoutAll)
         => auditSet = receiver \cup Range(arg.val)
    /\ ((Returned("disable") \/ Returned("enable")) /\ ListedWithoutAll)
         => \A a \in Audit \ Range(arg.val) :
                a \in auditSet <=> a \in receiver

\* disable([Acl, Acl]) on a set that already lacks Acl changes nothing.
C8_Witness ==
    /\ Returned("disable")
    /\ arg = Some(<<"Acl", "Acl">>)
    /\ receiver = NineCategories \ {"Acl", "Versioning"}
    /\ auditSet = receiver

-----------------------------------------------------------------------------
(* Properties of the report orchestration.  reports holds exactly the      *)
(* Reports that bucket_report has returned; calls holds every SDK call.    *)

InSet(audit) == BagIn(audit, auditVec)

Populated(slot) == slot.kind = "Some"

\* The seven slots of a Report, the SDK call that fills each, the audits
\* each is named after, and what the client makes of the call's answer.
Facets ==
    {"acl", "encryption", "logging", "policy", "public_access_block",
     "versioning", "website"}

FetchOfFacet(facet) ==
    CASE facet = "acl" -> "get_bucket_acl"
      [] facet = "encryption" -> "get_bucket_encryption"
      [] facet = "logging" -> "get_bucket_logging"
      [] facet = "policy" -> "get_bucket_policy"
      [] facet = "public_access_block" -> "get_public_access_block"
      [] facet = "versioning" -> "get_bucket_versioning"
      [] facet = "website" -> "get_bucket_website"

AuditsOfFacet(facet) ==
    CASE facet = "acl" -> {"Acl"}
      [] facet = "encryption" -> {"ServerSideEncryption"}
      [] facet = "logging" -> {"Logging"}
      [] facet = "policy" -> {"Policy"}
      [] facet = "public_access_block" -> {"PublicAccessBlocks"}
      [] facet = "versioning" -> {"Versioning", "MfaDelete"}
      [] facet = "website" -> {"Website"}

OutcomeOfFacet(facet, resp) ==
    CASE facet = "acl" -> GetBucketAcl(resp)
      [] facet = "encryption" -> GetBucketEncryption(resp)
      [] facet = "logging" -> GetBucketLogging(resp)
      [] facet = "policy" -> GetBucketPolicy(resp)
      [] facet = "public_access_block" -> GetPublicAccessBlock(resp)
      [] facet = "versioning" -> GetBucketVersioning(resp)
      [] facet = "website" -> GetBucketWebsite(resp)

\* The calls of one API made for one bucket, as indices of the history.
FetchesOf(name, api) ==
    {k \in DOMAIN calls : calls[k].api = api /\ calls[k].bucket = name}

\* C9: in every Report returned by bucket_report for the audit list S, a
\* slot is populated exactly when its audit is in S: acl with Acl,
\* encryption with ServerSideEncryption, logging with Logging, policy with
\* Policy, public_access_block with PublicAccessBlocks, website with
\* Website, and versioning when Versioning or MfaDelete is in S.
C9_SlotsFollowAudits ==
    \A i \in DOMAIN reports :
        LET r == reports[i]
        IN  /\ Populated(r.acl) <=> InSet("Acl")
            /\ Populated(r.encryption) <=> InSet("ServerSideEncryption")
            /\ Populated(r.logging) <=> InSet("Logging")
            /\ Populated(r.policy) <=> InSet("Policy")
            /\ Populated(r.public_access_block) <=> InSet("PublicAccessBlocks")
            /\ Populated(r.website) <=> InSet("Website")
            /\ Populated(r.versioning)
                 <=> (InSet("Versioning") \/ InSet("MfaDelete"))

\* The second bucket of a run got its Report with some slots populated and
\* others not, the versioning slot on account of MfaDelete alone.
C9_Witness ==
    /\ Len(reports) = 2
    /\ InSet("MfaDelete") /\ ~InSet("Versioning")
    /\ InSet("Policy") /\ ~InSet("Acl") /\ ~InSet("Website")
    /\ Populated(reports[2].versioning)
    /\ Populated(reports[2].policy)
    /\ ~Populated(reports[2].acl)
    /\ ~Populated(reports[2].website)

\* The fetch and the slot that go with each concrete audit.  The CloudFront
\* finding is computed from the bucket policy, so Cloudfront is given the
\* policy's fetch and slot.
FetchOfAudit(audit) ==
    CASE audit = "Acl" -> "get_bucket_acl"
      [] audit = "Cloudfront" -> "get_bucket_policy"
      [] audit = "Logging" -> "get_bucket_logging"
      [] audit = "MfaDelete" -> "get_bucket_versioning"
      [] audit = "Policy" -> "get_bucket_policy"
      [] audit = "PublicAccessBlocks" -> "get_public_access_block"
      [] audit = "ServerSideEncryption" -> "get_bucket_encryption"
      [] audit = "Versioning" -> "get_bucket_versioning"
      [] audit = "Website" -> "get_bucket_website"

SlotOfAudit(audit) ==
    CASE audit = "Acl" -> "acl"
      [] audit = "Cloudfront" -> "policy"
      [] audit = "Logging" -> "logging"
      [] audit = "MfaDelete" -> "versioning"
      [] audit = "Policy" -> "policy"
      [] audit = "PublicAccessBlocks" -> "public_access_block"
      [] audit = "ServerSideEncryption" -> "encryption"
      [] audit = "Versioning" -> "versioning"
      [] audit = "Website" -> "website"

\* C10 as stated: for every Report that bucket_report returns, each concrete
\* audit in the set has exactly one fetch for that bucket and a populated
\* slot, and each concrete audit not in the set has no fetch and a None
\* slot.
C10_OneFetchPerAudit ==
    \A i \in DOMAIN reports : \A audit \in NineCategories :
        LET r == reports[i]
            n == Cardinality(FetchesOf(r.name, FetchOfAudit(audit)))
        IN  IF InSet(audit)
            THEN n = 1 /\ Populated(r[SlotOfAudit(audit)])
            ELSE n = 0 /\ ~Populated(r[SlotOfAudit(audit)])

\* C10, amended: the fetches go by facet and not by audit.  For every Report
\* that bucket_report returns and each of the seven facets: when an audit of
\* the facet is in the set (Versioning or MfaDelete for versioning), exactly
\* one call of the facet's API was made for the bucket and the slot holds
\* what the client makes of that call's answer; otherwise no such call was
\* made and the slot is None.  Cloudfront belongs to no facet: it causes no
\* call and fills no slot.  At every moment of a run, returned or not, no
\* facet's API has been called twice for a bucket, nor at all for a facet
\* without an audit in the set.
C10_OneFetchPerFacet ==
    /\ \A i \in DOMAIN reports : \A facet \in Facets :
         LET r == reports[i]
             fetched == FetchesOf(r.name, FetchOfFacet(facet))
         IN  IF \E audit \in AuditsOfFacet(facet) : InSet(audit)
             THEN \E k \in fetched :
                    /\ fetched = {k}
                    /\ OutcomeOfFacet(facet, calls[k].resp).st = "ok"
                    /\ r[facet]
                         = Some(OutcomeOfFacet(facet, calls[k].resp).val)
             ELSE fetched = {} /\ r[facet] = None
    /\ \A name \in BucketNames : \A facet \in Facets :
         Cardinality(FetchesOf(name, FetchOfFacet(facet)))
           <= IF \E audit \in AuditsOfFacet(facet) : InSet(audit)
              THEN 1 ELSE 0

\* A run over two buckets has returned with Cloudfront and MfaDelete in the
\* set and Policy and Versioning out of it: each Report has its versioning
\* slot populated from one get_bucket_versioning call and its policy slot
\* None, and no get_bucket_policy call was made.
C10_Witness ==
    /\ rpc = "ok"
    /\ Len(reports) = 2
    /\ InSet("Cloudfront") /\ InSet("MfaDelete")
    /\ ~InSet("Policy") /\ ~InSet("Versioning")
    /\ \A i \in DOMAIN reports :
         /\ Cardinality(FetchesOf(reports[i].name,
                                  "get_bucket_versioning")) = 1
         /\ Populated(reports[i].versioning)
         /\ FetchesOf(reports[i].name, "get_bucket_policy") = {}
         /\ reports[i].policy = None

\* The get_bucket_versioning calls made for one bucket.
VersioningFetches(name) == FetchesOf(name, "get_bucket_versioning")

VersioningWanted == InSet("Versioning") \/ InSet("MfaDelete")

\* The bucket_report call in progress is past its versioning step.
PastVersioning == rpc \in {"website", "build"}

\* What the answer of a versioning fetch says, value by value.
MfaOfAnswer(resp) ==
    IF resp.val.mfa_delete = Some("Enabled") THEN "Enabled" ELSE "Disabled"

StatusOfAnswer(resp) ==
    IF resp.val.status = Some("Enabled") THEN "Enabled" ELSE "Suspended"

\* C11: within one bucket_report call get_bucket_versioning is called
\* exactly once when Versioning, MfaDelete or both are in the set and never
\* when neither is, and the versioning status and the MFA-delete status of
\* the Report both come from the answer of that one call.  A call that an
\* earlier failure ended before its versioning step has not made the fetch.
C11_OneVersioningFetch ==
    /\ \A name \in BucketNames :
         Cardinality(VersioningFetches(name))
           <= IF VersioningWanted THEN 1 ELSE 0
    /\ (PastVersioning /\ VersioningWanted)
         => Cardinality(VersioningFetches(BucketName)) = 1
    /\ \A i \in DOMAIN reports :
         IF VersioningWanted
         THEN \E k \in VersioningFetches(reports[i].name) :
                /\ VersioningFetches(reports[i].name) = {k}
                /\ calls[k].resp.kind = "Ok"
                /\ reports[i].versioning.val.versioning
                     = StatusOfAnswer(calls[k].resp)
                /\ reports[i].versioning.val.mfa_delete
                     = MfaOfAnswer(calls[k].resp)
         ELSE VersioningFetches(reports[i].name) = {}

\* With Versioning and MfaDelete both in the set, the vault bucket's Report
\* shows versioning and MFA delete enabled after a single fetch.
C11_Witness ==
    /\ InSet("Versioning") /\ InSet("MfaDelete")
    /\ \E i \in DOMAIN reports :
         /\ reports[i].name = "vault"
         /\ Cardinality(VersioningFetches("vault")) = 1
         /\ reports[i].versioning
              = Some([mfa_delete |-> "Enabled", versioning |-> "Enabled"])

\* C12: with Versioning in the set and MfaDelete not, one versioning fetch
\* is made and a Report shows only the versioning finding: its text has no
\* MFA-delete line and its CSV row no mfa_delete column; and with MfaDelete
\* alone, no versioning line or column is shown.
C12_OnlyEnabledHalfShown ==
    \A i \in DOMAIN reports :
      /\ (InSet("Versioning") /\ ~InSet("MfaDelete"))
           => /\ Cardinality(VersioningFetches(reports[i].name)) = 1
              /\ "versioning" \in TextFindings(reports[i])
              /\ "mfa_delete" \notin TextFindings(reports[i])
              /\ "versioning" \in CsvColumns(reports[i])
              /\ "mfa_delete" \notin CsvColumns(reports[i])
      /\ (InSet("MfaDelete") /\ ~InSet("Versioning"))
           => /\ Cardinality(VersioningFetches(reports[i].name)) = 1
              /\ "mfa_delete" \in TextFindings(reports[i])
              /\ "versioning" \notin TextFindings(reports[i])
              /\ "mfa_delete" \in CsvColumns(reports[i])
              /\ "versioning" \notin CsvColumns(reports[i])

\* A run with Versioning but not MfaDelete returns a Report whose text has
\* an MFA-delete line and whose CSV row has an mfa_delete column.
C12_Witness ==
    /\ InSet("Versioning") /\ ~InSet("MfaDelete")
    /\ rpc = "ok"
    /\ \E i \in DOMAIN reports :
         /\ Cardinality(VersioningFetches(reports[i].name)) = 1
         /\ "mfa_delete" \in TextFindings(reports[i])
         /\ "mfa_delete" \in CsvColumns(reports[i])

\* The get_bucket_policy answer carries a policy document.
HasDocument(resp) == resp.kind = "Ok" /\ resp.val.policy.kind = "Some"

\* C13: the policy slot of a Report is None when Policy is not in the set,
\* Some(None) when it is and the bucket's answer carried no policy document,
\* and Some(Some(finding)) when it is and the answer carried a document,
\* also a document without any wildcard; never the one for the other.
C13_PolicySlotThreeStates ==
    \A i \in DOMAIN reports :
      IF ~InSet("Policy")
      THEN reports[i].policy = None
      ELSE \E k \in FetchesOf(reports[i].name, "get_bucket_policy") :
             /\ Populated(reports[i].policy)
             /\ IF HasDocument(calls[k].resp)
                THEN /\ reports[i].policy.val.kind = "Some"
                     /\ DOMAIN reports[i].policy.val.val
                          = {"actions", "principals"}
                ELSE reports[i].policy.val = None

\* One run returns a Report with Some(None) for the vault bucket and one
\* with a finding of zero wildcards for the plain bucket's narrow policy.
C13_Witness ==
    /\ \E i \in DOMAIN reports :
         /\ reports[i].name = "vault"
         /\ reports[i].policy = Some(None)
    /\ \E i \in DOMAIN reports :
         /\ reports[i].name = "plain"
         /\ reports[i].policy.kind = "Some"
         /\ reports[i].policy.val.kind = "Some"
         /\ ActionWildcards(reports[i].policy.val.val.actions) = 0
         /\ PrincipalWildcards(reports[i].policy.val.val.principals) = 0

\* The preconditions of the policy analysis on the answer under analysis.
PolicyPresent == output.kind = "Some"

WellFormedJson == PolicyPresent /\ output.val.json

HasStatementArray ==
    WellFormedJson /\ JIndex(output.val.value, "Statement").kind = "Array"

HasStringEffect(statement) == JIndex(statement, "Effect").kind = "String"

Finished == ppc # "start"

\* C14: the policy analysis returns a finding only for a document that
\* meets every precondition.  An absent policy string and a text that is not
\* JSON end it with an error; a document whose Statement is missing or not
\* an array, or a statement without a string Effect, end it with a panic,
\* also after earlier statements were processed; the loop never gets past
\* such a statement and no finding is returned.
C14_NoFindingFromBadDocument ==
    /\ (Finished /\ ~WellFormedJson) => ppc = "err"
    /\ (Finished /\ WellFormedJson /\ ~HasStatementArray) => ppc = "panic"
    /\ (Finished /\ HasStatementArray)
         => \A j \in DOMAIN StatementsArray :
              ~HasStringEffect(StatementsArray[j])
                => /\ ppc \in {"loop", "panic"}
                   /\ idx <= j
    /\ ppc = "ok"
         => /\ HasStatementArray
            /\ \A j \in DOMAIN StatementsArray :
                 HasStringEffect(StatementsArray[j])

\* The analysis panicked at a second statement that has no string Effect,
\* after a first statement had added its actions and principals.
C14_Witness ==
    /\ HasStatementArray
    /\ ppc = "panic"
    /\ idx = 2
    /\ ~HasStringEffect(StatementsArray[2])
    /\ actions # <<>>
    /\ principals # <<>>

\* The calls whose failure stands for "not configured", with the finding
\* that a failure is read as.
AbsenceOfCall ==
    [ get_bucket_encryption |-> [kind |-> "None", val |-> ""],
      get_bucket_website |-> "Disabled",
      get_public_access_block |->
          [i \in 1..4 |->
             [kind |-> <<"BlockPublicAcls", "BlockPublicPolicy",
                         "IgnorePublicAcls", "RestrictPublicBuckets">>[i],
              val |-> FALSE]],
      get_bucket_policy |-> None ]

SlotOfCall ==
    [ get_bucket_encryption |-> "encryption",
      get_bucket_website |-> "website",
      get_public_access_block |-> "public_access_block",
      get_bucket_policy |-> "policy" ]

\* Call k failed in a way that stands for "not configured".
TypedAbsence(k) ==
    /\ calls[k].api \in DOMAIN AbsenceOfCall
    /\ calls[k].resp.kind = "Err"
    /\ calls[k].api = "get_bucket_policy"
         => calls[k].resp.val = "ServiceError"

\* The slot that call k filled: in the Report of its bucket once that is
\* built, in the locals of bucket_report until then.
SlotFilledBy(k) ==
    IF \E i \in DOMAIN reports : reports[i].name = calls[k].bucket
    THEN LET i == CHOOSE i \in DOMAIN reports :
                    reports[i].name = calls[k].bucket
         IN  reports[i][SlotOfCall[calls[k].api]]
    ELSE locals[SlotOfCall[calls[k].api]]

\* C15: a failed encryption, website or public-access-block fetch and a
\* service error of the policy fetch are never carried out as an error:
\* the step goes on, and the slot holds BucketEncryption::None,
\* BucketWebsite::Disabled, the all-false PublicAccessBlock or an absent
\* policy, in bucket_report and in the Report it returns.
C15_AbsenceIsNotAnError ==
    \A k \in DOMAIN calls :
      TypedAbsence(k)
        => /\ SlotFilledBy(k) = Some(AbsenceOfCall[calls[k].api])
           /\ k = Len(calls) => rpc \notin {"err", "panic"}

\* One run returned the Reports of the site bucket, whose encryption and
\* public-access-block fetches failed, and of the vault bucket, whose
\* website fetch failed and whose policy fetch met a service error.
C15_Witness ==
    /\ rpc = "ok"
    /\ \E k1, k2, k3, k4 \in DOMAIN calls :
         /\ TypedAbsence(k1) /\ calls[k1].api = "get_bucket_encryption"
         /\ TypedAbsence(k2) /\ calls[k2].api = "get_public_access_block"
         /\ TypedAbsence(k3) /\ calls[k3].api = "get_bucket_website"
         /\ TypedAbsence(k4) /\ calls[k4].api = "get_bucket_policy"
    /\ \E i \in DOMAIN reports :
         /\ reports[i].name = "site"
         /\ reports[i].encryption = Some([kind |-> "None", val |-> ""])
         /\ reports[i].public_access_block.kind = "Some"
    /\ \E i \in DOMAIN reports :
         /\ reports[i].name = "vault"
         /\ reports[i].website = Some("Disabled")
         /\ reports[i].policy = Some(None)

\* bucket_report of bucket number bidx ended in an Err or a panic.
BucketAuditAborted == rpc \in {"err", "panic"} /\ bidx >= 1

MultiBucketRun == Len(buckets) > 1

\* C16: in a run over several buckets, a fetch or a classifier that fails
\* for one bucket aborts the audit of that bucket only: every other bucket
\* of the run still gets its Report, with the slots the audit set selects.
C16_OtherBucketsKeepReports ==
    (MultiBucketRun /\ BucketAuditAborted)
      => \A j \in DOMAIN buckets \ {bidx} :
           \E i \in DOMAIN ReportsReturned :
             /\ ReportsReturned[i].name = buckets[j].name
             /\ Populated(ReportsReturned[i].acl) <=> InSet("Acl")
             /\ Populated(ReportsReturned[i].website) <=> InSet("Website")

\* The Report of the first of two buckets was built and pushed, the audit
\* of the second one failed, and the run returns no Report at all.
C16_Witness ==
    /\ MultiBucketRun
    /\ BucketAuditAborted
    /\ bidx = 2
    /\ Len(reports) = 1
    /\ reports[1].name = buckets[1].name
    /\ ReportsReturned = << >>

-----------------------------------------------------------------------------
(* Properties of the classifiers.                                          *)

Converted(c) == cpc = "done" /\ classifier = c

\* C17: every classifier returns a finding for every shape of its raw
\* input, without aborting: also for a versioning status or MFA-delete value
\* outside the known ones and for a public-access-block answer without a
\* configuration; and an absent sub-field gives the safe variant: no status
\* Suspended, no MFA value Disabled, no logging block Disabled, no grants
\* Private, no rules None.
C17_ClassifiersTotal ==
    /\ cpc = "done" => finding.st = "ok"
    /\ (Converted("versioning") /\ raw.status = None)
         => finding.val.versioning = "Suspended"
    /\ (Converted("versioning") /\ raw.mfa_delete = None)
         => finding.val.mfa_delete = "Disabled"
    /\ (Converted("logging") /\ raw.logging_enabled = None)
         => finding.val.kind = "Disabled"
    /\ (Converted("acl") /\ raw.grants = None) => finding.val = "Private"
    /\ (Converted("encryption") /\ raw.kind = "Ok"
          /\ raw.val.server_side_encryption_configuration = Some([rules |-> None]))
         => finding.val.kind = "None"

\* The versioning classifier was handed a status outside Enabled and
\* Suspended and panicked.
C17_Witness ==
    /\ Converted("versioning")
    /\ raw.status = Some("Unknown")
    /\ finding = [st |-> "panic"]

\* The two well-known group URIs, letter for letter.
AllUsers == "http://acs.amazonaws.com/groups/global/AllUsers"
AuthenticatedUsers ==
    "http://acs.amazonaws.com/groups/global/AuthenticatedUsers"

\* The grant names one of the two groups as its grantee.
GrantsToGroup(grant) ==
    \E u \in {AllUsers, AuthenticatedUsers} :
       grant.grantee = Some([uri |-> Some(u)])

\* C18: the ACL classifier returns Public exactly when some grant, at any
\* position, has a grantee whose URI is one of the two well-known group
\* URIs, and Private otherwise; grants without a grantee or without a URI
\* count for nothing, and an absent or empty grant list is Private.
C18_PublicIffGroupGrant ==
    Converted("acl")
      => /\ finding.st = "ok"
         /\ finding.val \in {"Public", "Private"}
         /\ finding.val = "Public"
              <=> /\ raw.grants.kind = "Some"
                  /\ \E i \in DOMAIN raw.grants.val :
                       GrantsToGroup(raw.grants.val[i])
         /\ (raw.grants = None \/ raw.grants = Some(<< >>))
              => finding.val = "Private"

\* A list of three grants, the first without a grantee, the second without
\* a URI, the third to AuthenticatedUsers, was classified Public.
C18_Witness ==
    /\ Converted("acl")
    /\ raw.grants = Some(<< [grantee |-> None],
                            [grantee |-> Some([uri |-> None])],
                            [grantee |-> Some([uri |->
                                                 Some(AuthenticatedUsers)])] >>)
    /\ finding = [st |-> "ok", val |-> "Public"]

\* The rules of an encryption answer: none for a failed call, an absent
\* configuration or an absent rule list.
RulesOf(res) ==
    IF res.kind = "Err" THEN << >>
    ELSE IF res.val.server_side_encryption_configuration = None THEN << >>
    ELSE IF res.val.server_side_encryption_configuration.val.rules = None
    THEN << >>
    ELSE res.val.server_side_encryption_configuration.val.rules.val

\* The rule names an algorithm to apply by default.
NamesAlgorithm(rule) ==
    /\ rule.apply_server_side_encryption_by_default # None
    /\ rule.apply_server_side_encryption_by_default.val.sse_algorithm # None

AlgorithmOf(rule) ==
    rule.apply_server_side_encryption_by_default.val.sse_algorithm.val

\* C19: the encryption classifier decides from the first rule only.  Its
\* algorithm AES256 gives Default, aws:kms gives Kms, any other name gives
\* Unknown with that very name; without a configuration, without rules, or
\* with a first rule that has no by-default block or no algorithm, the
\* finding is None.  The rules after the first have no say.
C19_FirstRuleDecides ==
    Converted("encryption")
      => /\ finding.st = "ok"
         /\ IF RulesOf(raw) = << >>
            THEN finding.val.kind = "None"
            ELSE IF ~NamesAlgorithm(RulesOf(raw)[1])
            THEN finding.val.kind = "None"
            ELSE LET alg == AlgorithmOf(RulesOf(raw)[1])
                 IN  CASE alg.val = "AES256" -> finding.val.kind = "Default"
                       [] alg.val = "aws:kms" -> finding.val.kind = "Kms"
                       [] OTHER -> finding.val = [kind |-> "Unknown",
                                                  val |-> alg.val]

\* Two rules, the first with the algorithm "wat" and the second with
\* AES256, were classified Unknown("wat").
C19_Witness ==
    /\ Converted("encryption")
    /\ Len(RulesOf(raw)) = 2
    /\ NamesAlgorithm(RulesOf(raw)[1])
    /\ AlgorithmOf(RulesOf(raw)[1]).val = "wat"
    /\ NamesAlgorithm(RulesOf(raw)[2])
    /\ AlgorithmOf(RulesOf(raw)[2]).val = "AES256"
    /\ finding = Returned_Ok([kind |-> "Unknown", val |-> "wat"])

\* The four entries of a public-access-block finding, in their order, and
\* the field of the configuration each one reads.
BlockOrder ==
    << "BlockPublicAcls", "BlockPublicPolicy", "IgnorePublicAcls",
       "RestrictPublicBuckets" >>

BlockField ==
    << "block_public_acls", "block_public_policy", "ignore_public_acls",
       "restrict_public_buckets" >>

\* The fetch failed: the bucket has no public-access-block configuration.
NoConfiguration == raw.kind = "Err"

ConfigurationPresent ==
    raw.kind = "Ok" /\ raw.val.public_access_block_configuration # None

\* C20: a PublicAccessBlock finding holds exactly four entries, in the
\* order BlockPublicAcls, BlockPublicPolicy, IgnorePublicAcls,
\* RestrictPublicBuckets.  When the fetch reports no configuration, the
\* finding is there, without an error, and all four are false; when a
\* configuration is present, each entry has the provider's value, an absent
\* value counting as false.
C20_FourEntriesInOrder ==
    Converted("public_access_block")
      => /\ finding.st = "ok"
              => /\ Len(finding.val) = 4
                 /\ \A i \in 1..4 : finding.val[i].kind = BlockOrder[i]
         /\ NoConfiguration
              => /\ finding.st = "ok"
                 /\ \A i \in 1..4 : finding.val[i].val = FALSE
         /\ ConfigurationPresent
              => /\ finding.st = "ok"
                 /\ \A i \in 1..4 :
                      finding.val[i].val
                        = (raw.val.public_access_block_configuration
                              .val[BlockField[i]] = Some(TRUE))

\* A configuration with block_public_policy true, ignore_public_acls false
\* and the two other values absent gave false, true, false, false.
C20_Witness ==
    /\ Converted("public_access_block")
    /\ ConfigurationPresent
    /\ raw.val.public_access_block_configuration.val
         = [block_public_acls |-> None, block_public_policy |-> Some(TRUE),
            ignore_public_acls |-> Some(FALSE),
            restrict_public_buckets |-> None]
    /\ finding.st = "ok"
    /\ [i \in 1..4 |-> finding.val[i].val] = <<FALSE, TRUE, FALSE, FALSE>>

-----------------------------------------------------------------------------
(* Properties of the extraction of actions and principals.                 *)

RECURSIVE ConcatAll(_)
ConcatAll(seqs) ==
    IF seqs = <<>> THEN <<>> ELSE Head(seqs) \o ConcatAll(Tail(seqs))

\* The strings among the elements of a JSON array, in order.
StringsIn(array) ==
    LET strs == SelectSeq(array, IsStr)
    IN  [i \in DOMAIN strs |-> strs[i].val]

\* The principals a Principal value stands for: a bare string; the string,
\* or the strings of the array, under the key AWS; nothing otherwise.
PrincipalsNamed(value) ==
    IF value.kind = "String" THEN <<value.val>>
    ELSE IF value.kind # "Object" THEN <<>>
    ELSE IF "AWS" \notin DOMAIN value.val THEN <<>>
    ELSE IF value.val.AWS.kind = "String" THEN <<value.val.AWS.val>>
    ELSE IF value.val.AWS.kind = "Array" THEN StringsIn(value.val.AWS.val)
    ELSE <<>>

\* The Principal value is neither a string nor an object with the key AWS.
OtherPrincipalShape(value) ==
    /\ value.kind # "String"
    /\ value.kind = "Object" => "AWS" \notin DOMAIN value.val

PrincipalOf(statement) ==
    IF statement.kind = "Object" /\ "Principal" \in DOMAIN statement.val
    THEN statement.val.Principal
    ELSE JNull

Counted == SelectSeq(Processed, NotDenied)

\* C21: the principals extracted from a statement are the bare string, or
\* the string or all strings of the array under the key AWS, and none for
\* every other shape of Principal: Service or Federated only, no AWS key,
\* null or missing, a number, a boolean.  Statements of such a shape add 0
\* to the wildcard count of the principals and to the CloudFront count.
C21_PrincipalShapes ==
    InAnalysis =>
      /\ principals
           = ConcatAll([i \in DOMAIN Counted |->
                          PrincipalsNamed(PrincipalOf(Counted[i]))])
      /\ (\A i \in DOMAIN Counted :
             OtherPrincipalShape(PrincipalOf(Counted[i])))
           => /\ principals = <<>>
              /\ PrincipalWildcards(principals) = 0
              /\ CloudFrontDistributions(principals) = 0

\* An Allow statement whose Principal holds "*" under Federated, followed by
\* one whose Principal holds two strings under AWS: the analysis ends with
\* those two principals.
C21_Witness ==
    /\ ppc = "ok"
    /\ Len(StatementsArray) = 2
    /\ Counted = StatementsArray
    /\ PrincipalOf(StatementsArray[1])
         = JObject([Federated |-> JString(WILDCARD)])
    /\ PrincipalOf(StatementsArray[2])
         = JObject([AWS |-> JArray(<<JString(StrArnStar),
                                     JString(WILDCARD)>>)])
    /\ principals = <<StrArnStar, WILDCARD>>

-----------------------------------------------------------------------------
(* Properties of the rendering.                                            *)

\* The columns each audit owns in the CSV row.
ColumnsOfAudit ==
    [ Acl |-> {"acl"},
      ServerSideEncryption |-> {"encryption"},
      Logging |-> {"logging"},
      Policy |-> {"policy_wildcard_principals"},
      PublicAccessBlocks |-> {"block_public_acls", "block_public_policy",
                              "ignore_public_acls",
                              "restrict_public_buckets"},
      Website |-> {"website"} ]

\* The columns the audit set calls for; the two versioning columns come
\* with the one versioning slot.
ColumnsWanted ==
    {"name"}
      \cup UNION {ColumnsOfAudit[a] : a \in {b \in DOMAIN ColumnsOfAudit :
                                                InSet(b)}}
      \cup (IF InSet("Versioning") \/ InSet("MfaDelete")
            THEN {"versioning", "mfa_delete"} ELSE {})

LineOrder ==
    << "name", "public_access_block", "BlockPublicAcls", "BlockPublicPolicy",
       "IgnorePublicAcls", "RestrictPublicBuckets", "encryption",
       "versioning", "mfa_delete", "website", "policy_wildcards",
       "policy_cloudfront", "acl", "logging" >>

\* The line shown in place of the two policy lines for a bucket without a
\* policy stands where they stand.
PlaceOf(shown) ==
    LET tag == IF shown = "no_bucket_policy" THEN "policy_wildcards"
               ELSE shown
    IN  CHOOSE k \in DOMAIN LineOrder : LineOrder[k] = tag

\* The lines each slot of a Report prints when it is populated.
LinesOfSlot ==
    [ public_access_block |-> {"public_access_block", "BlockPublicAcls",
                               "BlockPublicPolicy", "IgnorePublicAcls",
                               "RestrictPublicBuckets"},
      encryption |-> {"encryption"},
      versioning |-> {"versioning", "mfa_delete"},
      website |-> {"website"},
      policy |-> {"policy_wildcards", "policy_cloudfront",
                  "no_bucket_policy"},
      acl |-> {"acl"},
      logging |-> {"logging"} ]

\* C23: the text of a Report starts with the line of the bucket name and
\* goes on with the lines of the populated slots in the order
\* public-access-block lines, encryption, versioning, MFA delete, website,
\* policy wildcards, policy CloudFront, ACL, logging; a slot that is not
\* populated prints nothing; the order is the same whatever the audit list
\* and the fetches were.
C23_TextOrder ==
    \A i \in DOMAIN reports :
      LET text == Text(reports[i]) IN
      /\ text[1] = [line |-> "name", val |-> reports[i].name]
      /\ \A j, k \in DOMAIN text :
           j < k => PlaceOf(text[j].line) < PlaceOf(text[k].line)
      /\ \A slot \in DOMAIN LinesOfSlot :
           IF Populated(reports[i][slot])
           THEN \E j \in DOMAIN text : text[j].line \in LinesOfSlot[slot]
           ELSE \A j \in DOMAIN text : text[j].line \notin LinesOfSlot[slot]

\* The Report of the site bucket with every slot populated prints its
\* fourteen lines in the order of LineOrder.
C23_Witness ==
    \E i \in DOMAIN reports :
      /\ reports[i].name = "site"
      /\ \A slot \in DOMAIN LinesOfSlot : Populated(reports[i][slot])
      /\ [j \in DOMAIN Text(reports[i]) |-> Text(reports[i])[j].line]
           = LineOrder

-----------------------------------------------------------------------------
(* More properties of the audit selection.                                 *)

\* Audits::new().disable(None).enable(None).enabled()
RoundTrip == Enabled(Enable(Disable(New, None), None))

\* C24: enable(None) and disable(None) return the set they are called on,
\* whatever it holds, so Audits::new().disable(None).enable(None).enabled()
\* lists the same members as Audits::new().enabled(), each of them once.
C24_NoneIsNoOp ==
    /\ ((Returned("disable") \/ Returned("enable")) /\ arg = None)
         => auditSet = receiver
    /\ BagToSet(RoundTrip) = NineCategories
    /\ \A a \in NineCategories : CopiesIn(a, RoundTrip) = 1
    /\ RoundTrip = Enabled(New)
    /\ (op = "enabled" /\ apc = "consumed")
         => \A a \in Audit :
              CopiesIn(a, enabledVec) = IF a \in receiver THEN 1 ELSE 0

\* enable(None) was called on a set that lacks Acl and Website and returned
\* that set.
C24_Witness ==
    /\ Returned("enable")
    /\ arg = None
    /\ receiver = NineCategories \ {"Acl", "Website"}
    /\ auditSet = NineCategories \ {"Acl", "Website"}

\* The lists given on the command line.
Disabled == IF cli.disable_check.kind = "Some"
            THEN Range(cli.disable_check.val) ELSE {}

Requested == IF cli.enable_check.kind = "Some"
             THEN Range(cli.enable_check.val) ELSE {}

\* The set of the audits that main hands to Client::report.
Selected == BagToSet(mainAudits)

\* C25: main disables before it enables. Once the selection is made, an
\* audit named in both lists is selected; --disable-check all with an
\* enable list that lacks all selects exactly the audits of that list; an
\* enable list that names all selects the nine categories whatever was
\* disabled; in every other case the selection is the default set less the
\* disabled audits plus the requested ones. No audit is selected twice.
C25_DisableThenEnable ==
    mpc = "selected" =>
        /\ \A a \in NineCategories : CopiesIn(a, mainAudits) <= 1
        /\ "All" \notin Selected
        /\ \A a \in NineCategories :
             (a \in Disabled /\ a \in Requested) => a \in Selected
        /\ ("All" \in Disabled /\ "All" \notin Requested)
             => Selected = Requested
        /\ "All" \in Requested => Selected = NineCategories
        /\ ("All" \notin Disabled /\ "All" \notin Requested)
             => Selected = (New \ Disabled) \cup Requested

\* The selection was made for `--disable-check all --disable-check policy
\* --enable-check policy --enable-check acl`.
C25_Witness ==
    /\ mpc = "selected"
    /\ cli.disable_check = Some(<<"All", "Policy">>)
    /\ cli.enable_check = Some(<<"Policy", "Acl">>)
    /\ Selected = {"Policy", "Acl"}

-----------------------------------------------------------------------------
(* More properties of the policy analysis.                                 *)

ActionOf(statement) ==
    IF statement.kind = "Object" /\ "Action" \in DOMAIN statement.val
    THEN statement.val.Action
    ELSE JNull

\* The statement at which the analysis stopped.
Stopped == StatementsArray[idx]

\* C26: the extraction of Action and Principal values never aborts: the
\* policy analysis panics only on a document without a Statement array or
\* at a statement without a string Effect.
C26_ExtractionNeverAborts ==
    ppc = "panic" =>
        IF HasStatementArray
        THEN idx \in DOMAIN StatementsArray /\ ~HasStringEffect(Stopped)
        ELSE TRUE

\* The analysis panicked at an Allow statement whose Action is the array
\* ["s3:*", 1].
C26_Witness ==
    /\ ppc = "panic"
    /\ HasStatementArray
    /\ idx \in DOMAIN StatementsArray
    /\ JIndex(Stopped, "Effect") = JString(StrAllow)
    /\ ActionOf(Stopped) = JArray(<<JString(StrS3Star), JNumber(1)>>)

\* The actions an Action value stands for: a bare string, the strings of an
\* array, nothing otherwise.
ActionsNamed(value) ==
    IF value.kind = "String" THEN <<value.val>>
    ELSE IF value.kind = "Array" THEN StringsIn(value.val)
    ELSE <<>>

EffectOf(statement) == JIndex(statement, "Effect").val

\* The processed statements whose Effect is a spelling of Deny other than
\* "Deny", and those with another Effect that is not Allow.
LookAlikes ==
    {j \in DOMAIN Processed :
        EffectOf(Processed[j]) \in {StrDenyLower, StrDenyUpper}}

Unrecognised ==
    {j \in DOMAIN Processed :
        /\ EffectOf(Processed[j]) # StrAllow
        /\ ToLowercase(EffectOf(Processed[j])) # StrDenyLower}

ExactlyDeny == {j \in DOMAIN Processed : EffectOf(Processed[j]) = StrDeny}

\* The processed statements other than those of a set of indices.
Without(skipped) ==
    LET kept == {j \in DOMAIN Processed : j \notin skipped}
        F[j \in 0..Len(Processed)] ==
            IF j = 0 THEN << >>
            ELSE IF j \in kept THEN Append(F[j - 1], Processed[j])
            ELSE F[j - 1]
    IN  F[Len(Processed)]

\* C28: try_from skips a statement only when its Effect is exactly "Deny".
\* A statement whose Effect is "deny", "DENY" or an unrecognised string is
\* processed like an Allow statement: the actions and principals collected
\* are those of every processed statement but the ones with "Deny", and the
\* wildcards and CloudFront principals of those statements are counted.
\* The older classifier's test, which lower-cases the Effect first, takes
\* "deny" and "DENY" for Deny as well.
C28_OnlyExactDenySkipped ==
    InAnalysis =>
      LET kept == Without(ExactlyDeny)
      IN  /\ actions = ConcatAll([i \in DOMAIN kept |->
                                    ActionsNamed(ActionOf(kept[i]))])
          /\ principals = ConcatAll([i \in DOMAIN kept |->
                                       PrincipalsNamed(PrincipalOf(kept[i]))])
          /\ Wildcards(actions, principals)
               = SumSeq([i \in DOMAIN kept |-> StatementWildcards(kept[i])])
          /\ CloudFrontDistributions(principals)
               = SumSeq([i \in DOMAIN kept |->
                           StatementOaiPrincipals(kept[i])])
          /\ \A j \in LookAlikes \cup Unrecognised :
               /\ \E i \in DOMAIN kept : kept[i] = Processed[j]
               /\ Wildcards(actions, principals)
                    >= StatementWildcards(Processed[j])
               /\ CloudFrontDistributions(principals)
                    >= StatementOaiPrincipals(Processed[j])
          /\ \A j \in LookAlikes : OlderEffectIsDeny(EffectOf(Processed[j]))
          /\ \A j \in Unrecognised :
               ~OlderEffectIsDeny(EffectOf(Processed[j]))

\* The analysis of a "deny" statement with Action "*" and a CloudFront
\* principal followed by a "DENY" statement with Action "*" and Principal
\* "*" ended with three wildcards and one CloudFront distribution.
C28_Witness ==
    /\ ppc = "ok"
    /\ Len(StatementsArray) = 2
    /\ EffectOf(StatementsArray[1]) = StrDenyLower
    /\ EffectOf(StatementsArray[2]) = StrDenyUpper
    /\ LookAlikes = {1, 2}
    /\ actions = <<WILDCARD, WILDCARD>>
    /\ Wildcards(actions, principals) = 3
    /\ CloudFrontDistributions(principals) = 1

-----------------------------------------------------------------------------
(* More properties of the report orchestration.                            *)

\* The audit set of the run, the Cloudfront flag left out.
Observed == {a \in NineCategories \ {"Cloudfront"} : InSet(a)}

\* The facets that the audit set asks for, going by Observed alone.
Wanted(facet) == AuditsOfFacet(facet) \cap Observed # {}

FetchApis == {FetchOfFacet(facet) : facet \in Facets}

\* The fetches made for one bucket, as indices of the history.
FetchedFor(name) ==
    {k \in DOMAIN calls : calls[k].bucket = name /\ calls[k].api \in FetchApis}

\* The answer to the one fetch of a facet made for a bucket.
AnswerFor(name, facet) ==
    calls[CHOOSE k \in FetchesOf(name, FetchOfFacet(facet)) : TRUE].resp

HasCloudfrontLine(report) == "policy_cloudfront" \in TextFindings(report)

\* C27: the Cloudfront flag has no effect on a run.  The fetches made and
\* every Report are a function of the audit set without Cloudfront and of
\* the answers of the service: a fetch is made only for a facet that the
\* other audits ask for; a returned Report has had one fetch for each such
\* facet and no other, and holds in each slot what the client makes of that
\* fetch's answer, or None.  The text of a Report has the line of the
\* CloudFront distributions exactly when its policy slot is Some(Some(_)),
\* which is when Policy is audited and the bucket has a policy.
C27_CloudfrontFlagInert ==
    /\ \A k \in DOMAIN calls : \A facet \in Facets :
         calls[k].api = FetchOfFacet(facet) => Wanted(facet)
    /\ \A i \in DOMAIN reports :
         LET r == reports[i]
             asked == {facet \in Facets : Wanted(facet)}
         IN  /\ {calls[k].api : k \in FetchedFor(r.name)}
                  = {FetchOfFacet(facet) : facet \in asked}
             /\ Cardinality(FetchedFor(r.name)) = Cardinality(asked)
             /\ \A facet \in Facets :
                  r[facet] = IF facet \in asked
                             THEN Some(OutcomeOfFacet(
                                         facet, AnswerFor(r.name, facet)).val)
                             ELSE None
             /\ HasCloudfrontLine(r)
                  <=> (r.policy.kind = "Some" /\ r.policy.val.kind = "Some")
             /\ HasCloudfrontLine(r)
                  <=> /\ "Policy" \in Observed
                      /\ GetBucketPolicy(AnswerFor(r.name, "policy")).val.kind
                           = "Some"

\* A run with Cloudfront and Acl in the audit set and Policy not returned a
\* Report for the site bucket, whose policy names a CloudFront identity: no
\* policy was fetched and the Report has no CloudFront line.
C27_Witness ==
    /\ InSet("Cloudfront") /\ InSet("Acl") /\ ~InSet("Policy")
    /\ \E i \in DOMAIN reports :
         /\ reports[i].name = "site"
         /\ Populated(reports[i].acl)
         /\ reports[i].policy = None
         /\ ~HasCloudfrontLine(reports[i])
         /\ FetchesOf("site", "get_bucket_policy") = {}

\* The order in which bucket_report makes its fetches.
FetchOrder ==
    <<"get_bucket_acl", "get_bucket_encryption", "get_bucket_logging",
      "get_bucket_policy", "get_public_access_block",
      "get_bucket_versioning", "get_bucket_website">>

PlaceOfFetch(api) == CHOOSE n \in DOMAIN FetchOrder : FetchOrder[n] = api

PlaceOfBucket(name) == CHOOSE n \in DOMAIN buckets : buckets[n].name = name

FacetOfFetch(api) == CHOOSE facet \in Facets : FetchOfFacet(facet) = api

IsFetch(k) == calls[k].api \in FetchApis

\* What the client makes of the answer to call number k: ok, err or panic.
OutcomeOfCall(k) ==
    IF IsFetch(k)
    THEN OutcomeOfFacet(FacetOfFetch(calls[k].api), calls[k].resp).st
    ELSE IF calls[k].api = "get_bucket_location"
    THEN GetBucketRegion(calls[k].resp).st
    ELSE IF calls[k].resp.kind = "Err" THEN "err" ELSE "ok"

\* The Reports that main hands to output to be rendered.
Rendered == ReportsReturned

\* C29: report is sequential and all-or-nothing.  The fetches are made in
\* the order acl, encryption, logging, policy, public access block,
\* versioning, website, bucket after bucket in the order of the input.  A
\* call that ends in an error (a fetch, a region lookup, the bucket list) is
\* the last call of the run: report returns the error and nothing is
\* rendered, whatever Reports had been built.  Reports are rendered only
\* when report returned Ok, which takes every call of the run to have
\* succeeded and every bucket to have had each fetch its audits ask for;
\* they are rendered one per bucket in the order of the input.
C29_AllOrNothingInOrder ==
    /\ \A k1, k2 \in DOMAIN calls :
         (k1 < k2 /\ IsFetch(k1) /\ IsFetch(k2))
           => IF calls[k1].bucket = calls[k2].bucket
              THEN PlaceOfFetch(calls[k1].api) < PlaceOfFetch(calls[k2].api)
              ELSE PlaceOfBucket(calls[k1].bucket)
                     < PlaceOfBucket(calls[k2].bucket)
    /\ \A k \in DOMAIN calls :
         OutcomeOfCall(k) = "err"
           => /\ k = Len(calls)
              /\ rpc = "err"
              /\ Rendered = << >>
    /\ rpc = "err"
         => /\ calls # << >>
            /\ OutcomeOfCall(Len(calls)) = "err"
            /\ Rendered = << >>
    /\ Rendered # << >>
         => /\ rpc = "ok"
            /\ \A k \in DOMAIN calls : OutcomeOfCall(k) = "ok"
            /\ Len(Rendered) = Len(buckets)
            /\ \A i \in DOMAIN Rendered :
                 /\ Rendered[i].name = buckets[i].name
                 /\ Text(Rendered[i])[1] = Line("name", buckets[i].name)
                 /\ \A facet \in Facets :
                      (\E audit \in AuditsOfFacet(facet) : InSet(audit))
                        => FetchesOf(buckets[i].name, FetchOfFacet(facet))
                             # {}

\* The first of two buckets had its fetches and its Report; the logging
\* fetch of the second one, made after its acl fetch, returned an error:
\* report ended with that error and nothing is rendered.
C29_Witness ==
    /\ Len(buckets) = 2
    /\ Len(reports) = 1
    /\ reports[1].name = buckets[1].name
    /\ rpc = "err"
    /\ calls[Len(calls)].api = "get_bucket_logging"
    /\ calls[Len(calls)].bucket = buckets[2].name
    /\ calls[Len(calls) - 1].api = "get_bucket_acl"
    /\ calls[Len(calls) - 1].bucket = buckets[2].name
    /\ Rendered = << >>

-----------------------------------------------------------------------------
(* More properties of the rendering.                                       *)

NotOai(principal) == ~HasOaiPrefix(principal)

\* The Report with the CloudFront identities taken out of its policy.
WithoutOai(report) ==
    [report EXCEPT
       !.policy = Some(Some(
           [actions |-> report.policy.val.val.actions,
            principals |-> SelectSeq(report.policy.val.val.principals,
                                     NotOai)]))]

PolicyColumn == "policy_wildcard_principals"

\* C30: the CSV row does not keep the three states of the policy slot
\* apart.  The column policy_wildcard_principals is left out exactly when
\* the slot is None; it is false for a bucket without a policy, Some(None),
\* and for a policy without wildcards, and true exactly for a policy whose
\* wildcards() is greater than 0.  The CloudFront identities of the policy
\* change nothing in the row.  The text has the line "No bucket policy set"
\* exactly for Some(None) and the wildcard and CloudFront lines exactly for
\* a policy.
C30_CsvPolicyColumn ==
    \A i \in DOMAIN reports :
        LET r == reports[i]
            row == CsvOutputFrom(r)
            n == IF r.policy.kind = "Some" /\ r.policy.val.kind = "Some"
                 THEN ActionWildcards(r.policy.val.val.actions)
                        + PrincipalWildcards(r.policy.val.val.principals)
                 ELSE 0
        IN  /\ PolicyColumn \in CsvColumns(r) <=> r.policy.kind = "Some"
            /\ PolicyColumn \in Range(CsvHeader(r)) <=> r.policy.kind = "Some"
            /\ r.policy.kind = "Some"
                 => row[PolicyColumn] = Some(n > 0)
            /\ r.policy = Some(None) => row[PolicyColumn] = Some(FALSE)
            /\ (r.policy.kind = "Some" /\ r.policy.val.kind = "Some")
                 => /\ CsvRow(WithoutOai(r)) = CsvRow(r)
                    /\ CsvHeader(WithoutOai(r)) = CsvHeader(r)
            /\ "no_bucket_policy" \in TextFindings(r) <=> r.policy = Some(None)
            /\ {"policy_wildcards", "policy_cloudfront"} \cap TextFindings(r)
                 = IF r.policy.kind = "Some" /\ r.policy.val.kind = "Some"
                   THEN {"policy_wildcards", "policy_cloudfront"}
                   ELSE {}

\* One run returned the Report of the vault bucket, which has no policy, and
\* that of the plain bucket with its policy without wildcards: both rows
\* hold false in the policy column, and only the first text has the line
\* "No bucket policy set".
C30_Witness ==
    /\ Len(reports) = 2
    /\ reports[1].name = "vault"
    /\ reports[2].name = "plain"
    /\ reports[1].policy = Some(None)
    /\ reports[2].policy.kind = "Some"
    /\ reports[2].policy.val.kind = "Some"
    /\ CsvOutputFrom(reports[1])[PolicyColumn] = Some(FALSE)
    /\ CsvOutputFrom(reports[2])[PolicyColumn] = Some(FALSE)
    /\ "no_bucket_policy" \in TextFindings(reports[1])
    /\ "no_bucket_policy" \notin TextFindings(reports[2])

====
